---- MODULE Spec2Model ----
(***************************************************************************)
(* A model of the Zotero client of the babel frontend                      *)
(* (services/zoteroClient.js, the variant with pagination, sub-collections *)
(* and note covers): the paginated item listing, the rooted listing with   *)
(* de-duplication, the chunked cover enrichment and the cover resolver.    *)
(*                                                                         *)
(* Strings on which the code works character by character (titles,        *)
(* content types, host names, path names) are sequences of one-character   *)
(* strings; strings the code only compares are TLA+ strings.               *)
(***************************************************************************)
EXTENDS Integers, Sequences, FiniteSets, TLC

VARIABLES
    \* ---- configuration (src/config.js), fixed during a run
    LIBRARY_ID,              \* TRUE when library type and id are both set
    API_KEY,                 \* TRUE when an API key is configured
    WEBDAV_BASE_URL,         \* TRUE when a WebDAV base URL is configured
    COLLECTION_KEY,          \* TRUE when a root collection is configured
    ATTACHMENT_CONCURRENCY,  \* the chunk size of the enrichment
    \* ---- attachCoverImages(items)
    items,                   \* the argument: a sequence of item summaries
    acPc,                    \* "idle" | "running" | "done" | "rejected"
    chunks,                  \* the chunks, each a sequence of positions of items
    chunkIdx,                \* the chunk being awaited (0 before the call)
    attFetch,                \* per position: the fetchAttachmentsForItem call
    noteFetch,               \* per position: the fetchNotesForItem call
    itemResult,              \* per position: the promise of the per-item function
    settleOrder,             \* positions in the order their promises fulfilled
    withCovers,              \* the array built up and finally returned
    \* ---- the remote library (the server side of the children requests)
    libAttachments,          \* per item key: its child attachments, as served
    libNotes,                \* per item key: its child notes, as served
    \* ---- the cover resolver applied to one item's children
    coverPc,                 \* "input" | "done"
    coverOut,                \* what chooseCoverUrl, the note scan and their
                             \* combination returned
    \* ---- fetchTopLevelItems(limit)
    limit,                   \* the argument
    listings,                \* per listing path: the records the server holds
    subCollections,          \* the number of direct sub-collections of the root
    topPc,                   \* "idle" | "listing" | "running" | "resolved" | "rejected"
    collectionKeys,          \* the listing paths of the rooted configuration
    runs,                    \* per listing: the fetchPagedItems call
    finished,                \* the listings in the order their calls returned
    warned,                  \* TRUE once the sub-collection failure was caught
    topOut,                  \* the array fetchTopLevelItems resolves with
    \* ---- the other operations, each a record of the call and its requests
    fc,                      \* fetchCollections()
    probe,                   \* findFirstNonEmptyCollection(collections)
    bundle,                  \* fetchItemBundle(itemKey)
    detail,                  \* the detail panel: openItemDetail / closeDetail
    resolution               \* fetchAttachmentsForItem's map over one attachment

configVars == <<LIBRARY_ID, API_KEY, WEBDAV_BASE_URL, COLLECTION_KEY,
                ATTACHMENT_CONCURRENCY>>
enrichVars == <<items, acPc, chunks, chunkIdx, attFetch, noteFetch,
                itemResult, settleOrder, withCovers>>
libVars == <<libAttachments, libNotes>>
coverVars == <<coverPc, coverOut>>
topVars == <<limit, listings, subCollections, topPc, collectionKeys, runs,
             finished, warned, topOut>>
callVars == <<fc, probe, bundle, detail, resolution>>
vars == <<configVars, enrichVars, libVars, coverVars, topVars, callVars>>

\* ------------------------------------------------------------------------
\* Bounds of the model
\* ------------------------------------------------------------------------
MaxItems == 4            \* longest item list given to attachCoverImages
MaxConcurrency == 2      \* largest configured ATTACHMENT_CONCURRENCY
MaxAttachments == 2      \* most child attachments of an item without notes
MaxNotedAttachments == 1 \* most child attachments of an item with notes
MaxNotes == 1            \* most child notes of an item
MaxTarget == 2           \* largest limit tried against arbitrary small listings
MaxRecords == 3          \* most records of an arbitrary unrooted listing
MaxPages == 3            \* most page requests of one fetchPagedItems call
MaxSubs == 1             \* most direct sub-collections of the root
MaxRootedRecords == 1    \* most records of the listing of one collection
MaxRelations == 2        \* most entries of the relation map of an item
MaxDetailItems == 2      \* items of the grid whose detail can be opened
MaxOpens == 3            \* most calls of openItemDetail
MaxScannedNotes == 2     \* most notes scanned for an embedded image
MaxRankedAttachments == 2 \* most attachments ranked by the heuristic

\* ------------------------------------------------------------------------
\* Small helpers
\* ------------------------------------------------------------------------
Min(a, b) == IF a < b THEN a ELSE b

Range(s) == {s[i] : i \in 1..Len(s)}

\* ------------------------------------------------------------------------
\* Strings: String.prototype.trim / startsWith / endsWith / includes and the
\* case-insensitive flag of the regular expressions
\* ------------------------------------------------------------------------
UpperCase == <<"A","B","C","D","E","F","G","H","I","J","K","L","M",
               "N","O","P","Q","R","S","T","U","V","W","X","Y","Z">>
LowerCase == <<"a","b","c","d","e","f","g","h","i","j","k","l","m",
               "n","o","p","q","r","s","t","u","v","w","x","y","z">>

LowerChar(c) ==
    IF \E i \in 1..26 : UpperCase[i] = c
    THEN LowerCase[CHOOSE i \in 1..26 : UpperCase[i] = c]
    ELSE c

ToLower(s) == [i \in 1..Len(s) |-> LowerChar(s[i])]

StartsWith(s, p) == Len(s) >= Len(p) /\ SubSeq(s, 1, Len(p)) = p

EndsWith(s, p) == Len(s) >= Len(p) /\ SubSeq(s, Len(s) - Len(p) + 1, Len(s)) = p

Includes(s, p) == \E i \in 0..(Len(s) - Len(p)) : SubSeq(s, i + 1, i + Len(p)) = p

Trim(s) ==
    LET inked == {i \in 1..Len(s) : s[i] # " "}
    IN  IF inked = {} THEN <<>>
        ELSE SubSeq(s, CHOOSE i \in inked : \A j \in inked : i <= j,
                       CHOOSE i \in inked : \A j \in inked : i >= j)

\* ------------------------------------------------------------------------
\* URLs and other references. A reference is a record; the empty string ''
\* and null are two distinguished references, both falsy.
\* ------------------------------------------------------------------------
EmptyStr == [scheme |-> "", host |-> <<>>, path |-> <<>>, key |-> FALSE]
Null     == [scheme |-> "null", host |-> <<>>, path |-> <<>>, key |-> FALSE]

Truthy(u) == u # EmptyStr /\ u # Null

\* a || b
OrElse(a, b) == IF Truthy(a) THEN a ELSE b

SchemeChars(u) ==
    CASE u.scheme = "https" -> <<"h","t","t","p","s",":","/","/">>
      [] u.scheme = "data"  -> <<"d","a","t","a",":">>
      [] OTHER -> <<>>

\* the characters of the reference as a string (query omitted)
UrlChars(u) == SchemeChars(u) \o u.host \o u.path

\* `${links.self.href}/file`
WithFile(u) == [u EXCEPT !.path = @ \o <<"/","f","i","l","e">>]

ZoteroOrg == <<"z","o","t","e","r","o",".","o","r","g">>

\* appendKeyToUrl(href): new URL(href) throws on a relative reference
appendKeyToUrl(href) ==
    IF ~Truthy(href) THEN href
    ELSE IF href.scheme = "rel" THEN href
    ELSE IF API_KEY /\ EndsWith(href.host, ZoteroOrg)
         THEN [href EXCEPT !.key = TRUE]
         ELSE href

ImageExtensions ==
    { <<".","p","n","g">>, <<".","j","p","g">>, <<".","j","p","e","g">>,
      <<".","g","i","f">>, <<".","w","e","b","p">>, <<".","b","m","p">>,
      <<".","s","v","g">> }

\* /\.(png|jpe?g|gif|webp|bmp|svg)$/i
HasImageExtension(chars) ==
    \E ext \in ImageExtensions : EndsWith(ToLower(chars), ext)

\* isLikelyImageUrl(url): the test is on the pathname of the parsed URL
isLikelyImageUrl(u) == Truthy(u) /\ HasImageExtension(u.path)

\* ------------------------------------------------------------------------
\* fetchAttachmentsForItem: the record built for each child attachment
\* ------------------------------------------------------------------------
WebTitle == <<"B","o","o","k"," ","C","o","v","e","r"," ","(","W","e","b",")">>

ImageSlash == <<"i","m","a","g","e","/">>

CoverWord == <<"c","o","v","e","r">>

WebDavHost == <<"w","e","b","d","a","v",".","k","e","r","e","w","e","s",".","c","o","m">>

\* `${webdavBase}${attachmentKey}.zip`
WebDavUrl(attachmentKey) ==
    [scheme |-> "https", host |-> WebDavHost,
     path |-> <<"/","z","o","t","e","r","o","/">> \o attachmentKey \o <<".","z","i","p">>,
     key |-> FALSE]

\* links?.self?.href ? `${links.self.href}/file` : ''
SelfFile(att) == IF Truthy(att.self) THEN WithFile(att.self) ELSE EmptyStr

ResolvedUrlStoredFirst(raw) ==
    IF WEBDAV_BASE_URL /\ raw.linkMode # "linked_url"
    THEN WebDavUrl(raw.key)
    ELSE OrElse(raw.url,
                OrElse(appendKeyToUrl(IF raw.enclosure # Null THEN raw.enclosure
                                      ELSE SelfFile(raw)),
                       EmptyStr))

ResolvedUrl(raw) ==
    IF WEBDAV_BASE_URL /\ raw.linkMode # "linked_url"
    THEN WebDavUrl(raw.key)
    ELSE OrElse(appendKeyToUrl(IF raw.enclosure # Null THEN raw.enclosure
                               ELSE SelfFile(raw)),
                OrElse(raw.url, EmptyStr))

\* attachments.map((attachment) => ({...}))
MapAttachment(raw) ==
    [key |-> raw.key, contentType |-> raw.contentType, fileName |-> raw.fileName,
     title |-> raw.title, url |-> OrElse(raw.url, EmptyStr),
     linkMode |-> raw.linkMode,
     enclosure |-> raw.enclosure, self |-> raw.self,
     resolvedUrl |-> ResolvedUrl(raw)]

MapAttachments(raws) == [i \in 1..Len(raws) |-> MapAttachment(raws[i])]

\* ------------------------------------------------------------------------
\* chooseCoverUrl
\* ------------------------------------------------------------------------
IsWebCover(att) == Trim(att.title) = WebTitle

\* the score function of the comparator
Score(att) ==
    IF IsWebCover(att) THEN 100
    ELSE (IF StartsWith(att.contentType, ImageSlash) THEN 4 ELSE 0)
       + (IF att.fileName # <<>> /\ HasImageExtension(att.fileName) THEN 2 ELSE 0)
       + (IF isLikelyImageUrl(att.url) THEN 3 ELSE 0)
       + (IF Includes(ToLower(att.title), CoverWord) THEN 1 ELSE 0)

\* attachments.slice().sort((a, b) => score(b) - score(a)); the sort is stable
RankedUnsorted(atts) == atts

Scores(atts) == [i \in 1..Len(atts) |-> Score(atts[i])]

\* a sort that puts the later of two attachments with equal score first
RankLaterFirst(scores, i) ==
    1 + Cardinality({j \in 1..Len(scores) :
                        scores[j] > scores[i] \/ (scores[j] = scores[i] /\ j > i)})

\* the place in the sorted array of the attachment at position i
RankIn(scores, i) ==
    1 + Cardinality({j \in 1..Len(scores) :
                        scores[j] > scores[i] \/ (scores[j] = scores[i] /\ j < i)})

SortByScore(atts, scores) ==
    [r \in 1..Len(atts) |-> atts[CHOOSE i \in 1..Len(atts) : RankIn(scores, i) = r]]

Ranked(atts) == SortByScore(atts, Scores(atts))

Found(u) == [found |-> TRUE, value |-> u]
NotFound == [found |-> FALSE, value |-> Null]

\* the body of the loop over the ranked attachments: a return, or fall
\* through. enclosure, selfFile and target are the constants of the loop body.
CoverFrom(att, enclosure, selfFile, target) ==
    IF IsWebCover(att)
    THEN Found(OrElse(att.url, appendKeyToUrl(OrElse(att.enclosure, selfFile))))
    ELSE IF StartsWith(att.contentType, ImageSlash) /\ Truthy(target)
    THEN Found(appendKeyToUrl(target))
    ELSE IF isLikelyImageUrl(enclosure) THEN Found(appendKeyToUrl(enclosure))
    ELSE IF isLikelyImageUrl(selfFile) THEN Found(appendKeyToUrl(selfFile))
    ELSE IF isLikelyImageUrl(att.url) THEN Found(att.url)
    ELSE IF Includes(ToLower(att.title \o UrlChars(att.url)), CoverWord)
    THEN Found(OrElse(att.url, appendKeyToUrl(OrElse(enclosure, selfFile))))
    ELSE NotFound

\* enclosure || selfFile || url
CoverTarget(enclosure, selfFile, url) == OrElse(enclosure, OrElse(selfFile, url))

CoverWithLinks(att, enclosure, selfFile) ==
    CoverFrom(att, enclosure, selfFile, CoverTarget(enclosure, selfFile, att.url))

CoverOfAttachment(att) ==
    CoverWithLinks(att, OrElse(att.enclosure, EmptyStr), SelfFile(att))

\* for (const attachment of ranked): the first attachment that returns
FirstReturn(outcomes) ==
    IF \A r \in 1..Len(outcomes) : ~outcomes[r].found THEN Null
    ELSE outcomes[CHOOSE r \in 1..Len(outcomes) :
                    /\ outcomes[r].found
                    /\ \A q \in 1..(r - 1) : ~outcomes[q].found].value

CoversOf(ranked) == [r \in 1..Len(ranked) |-> CoverOfAttachment(ranked[r])]

chooseCoverUrl(atts) == FirstReturn(CoversOf(Ranked(atts)))

\* ------------------------------------------------------------------------
\* extractB64CoverFromNotes. The content of a note is a sequence of tokens:
\* runs of text and the attribute shapes the four patterns look for.
\*   "text"        : characters
\*   "src"         : src=<uri>, quoted or not; enc: the quotes are written &quot;
\*   "keyattr"     : data-attachment-key="<key>" (or zapi:key=, key=)
\*   "placeholder" : <p ... "<key>" ... width=...>
\* ------------------------------------------------------------------------
B64Marker == <<"b","o","o","k"," ","c","o","v","e","r"," ","(","b","6","4",")">>

Digits == {"0","1","2","3","4","5","6","7","8","9"}

\* [A-Z0-9] under the i flag
IsAlnum(c) == c \in Digits \/ c \in Range(UpperCase) \/ c \in Range(LowerCase)

\* ([A-Z0-9]{8}) between quotes
IsKey8(chars) == Len(chars) = 8 /\ \A i \in 1..8 : IsAlnum(chars[i])

\* /Book Cover \(b64\)/i.test(content)
IsFlagged(content) ==
    \E i \in 1..Len(content) :
        content[i].t = "text" /\ Includes(ToLower(content[i].chars), B64Marker)

\* .replace(/&quot;/g, '"') ... : the entity-encoded quotes become quotes
DecodeEntities(content) ==
    [i \in 1..Len(content) |-> [content[i] EXCEPT !.enc = FALSE]]

\* data:image\/[^"']+
IsDataImage(u) ==
    u.scheme = "data" /\ StartsWith(u.path, ImageSlash) /\ Len(u.path) > Len(ImageSlash)

IsQuotedDataSrc(tok) ==
    tok.t = "src" /\ tok.quoted /\ ~tok.enc /\ IsDataImage(tok.uri)

IsBareDataSrc(tok) ==
    tok.t = "src" /\ ~tok.quoted /\ ~tok.enc /\ IsDataImage(tok.uri)

IsKeyAttr(tok) == tok.t = "keyattr" /\ ~tok.enc /\ IsKey8(tok.key)

IsPlaceholder(tok) == tok.t = "placeholder" /\ ~tok.enc /\ IsKey8(tok.key)

\* content.match(re): the position of the first match, 0 when there is none
FirstMatch(hits) ==
    IF hits = {} THEN 0 ELSE CHOOSE i \in hits : \A j \in hits : i <= j

\* embeddedAttachment.resolvedUrl || appendKeyToUrl(enclosure || self/file)
ImageUrlOf(att) ==
    OrElse(att.resolvedUrl, appendKeyToUrl(OrElse(att.enclosure, SelfFile(att))))

\* attachments.find(att => att.key === embeddedKey) and the URL built from
\* it; null when there is no such attachment
EmbeddedImageUrl(embeddedKey, atts) ==
    IF \A i \in 1..Len(atts) : atts[i].key # embeddedKey THEN Null
    ELSE ImageUrlOf(atts[CHOOSE i \in 1..Len(atts) :
                            /\ atts[i].key = embeddedKey
                            /\ \A j \in 1..(i - 1) : atts[j].key # embeddedKey])

\* the attachment a key match resolves to: null when the pattern did not match
MatchedImageUrl(content, m, atts) ==
    IF m = 0 THEN Null ELSE EmbeddedImageUrl(content[m].key, atts)

\* the four patterns in their order, given where each first matches (m1, m2)
\* and what the two key patterns resolve to (url3, url4)
FirstPattern(content, m1, m2, url3, url4) ==
    IF m1 # 0 THEN Found(content[m1].uri)
    ELSE IF m2 # 0 THEN Found(content[m2].uri)
    ELSE IF Truthy(url3) THEN Found(url3)
    ELSE IF Truthy(url4) THEN Found(url4)
    ELSE NotFound

ScanContent(content, atts) ==
    FirstPattern(content,
        FirstMatch({i \in 1..Len(content) : IsQuotedDataSrc(content[i])}),
        FirstMatch({i \in 1..Len(content) : IsBareDataSrc(content[i])}),
        MatchedImageUrl(content,
            FirstMatch({i \in 1..Len(content) : IsKeyAttr(content[i])}), atts),
        MatchedImageUrl(content,
            FirstMatch({i \in 1..Len(content) : IsPlaceholder(content[i])}), atts))

\* the body of the loop over the notes: a return, or fall through
CoverOfNote(note, atts) ==
    IF ~IsFlagged(note.content) THEN NotFound
    ELSE ScanContent(DecodeEntities(note.content), atts)

NoteCovers(notes, atts) == [i \in 1..Len(notes) |-> CoverOfNote(notes[i], atts)]

ExtractFromFirstFlagged(notes, atts) ==
    IF \A i \in 1..Len(notes) : ~IsFlagged(notes[i].content) THEN Null
    ELSE CoverOfNote(notes[CHOOSE i \in 1..Len(notes) :
                              /\ IsFlagged(notes[i].content)
                              /\ \A j \in 1..(i - 1) : ~IsFlagged(notes[j].content)],
                     atts).value

extractB64CoverFromNotes(notes, atts) == FirstReturn(NoteCovers(notes, atts))

\* ------------------------------------------------------------------------
\* The cover of one item, as attachCoverImages computes it from the two
\* fetched lists
\* ------------------------------------------------------------------------
\* const coverUrl = b64Cover || webCoverUrl; isB64Cover: !!b64Cover
PreferWebCover(b64Cover, webCoverUrl) ==
    [web |-> webCoverUrl, b64 |-> b64Cover,
     coverUrl |-> OrElse(webCoverUrl, b64Cover), isB64Cover |-> Truthy(b64Cover)]

PreferB64Cover(b64Cover, webCoverUrl) ==
    [web |-> webCoverUrl, b64 |-> b64Cover,
     coverUrl |-> OrElse(b64Cover, webCoverUrl), isB64Cover |-> Truthy(b64Cover)]

ResolveCover(atts, notes) ==
    PreferB64Cover(extractB64CoverFromNotes(notes, atts), chooseCoverUrl(atts))

\* ------------------------------------------------------------------------
\* attachCoverImages
\* ------------------------------------------------------------------------
ItemKeys == {"ITEMAAA1", "ITEMBBB2"}

\* the summaries handed in: only the key matters to the enrichment
ItemSummary(k) == [key |-> k]

NoResult == [key |-> "", attachments |-> <<>>, coverUrl |-> Null, isB64Cover |-> FALSE]

NotCalled == [st |-> "none", data |-> <<>>]
InFlight  == [st |-> "inflight", data |-> <<>>]
Failed    == [st |-> "failed", data |-> <<>>]
Ok(d)     == [st |-> "ok", data |-> d]

\* notes.map((note) => ({key, title, content, dateModified}))
MapNotes(raws) == [i \in 1..Len(raws) |-> [key |-> raws[i].key, content |-> raws[i].content]]

\* for (i = 0; i < items.length; i += L) chunks.push(items.slice(i, i + L));
\* a chunk is kept as the positions of its items
ChunksOversize(its, L) ==
    LET n == Len(its)
        count == (n + L) \div (L + 1)
    IN  [c \in 1..count |->
            [j \in 1..(Min(c * (L + 1), n) - (c - 1) * (L + 1)) |-> (c - 1) * (L + 1) + j]]

Chunks(its, L) ==
    LET n == Len(its)
        count == (n + L - 1) \div L
    IN  [c \in 1..count |->
            [j \in 1..(Min(c * L, n) - (c - 1) * L) |-> (c - 1) * L + j]]

\* await Promise.all(chunk.map(...)) resumes once every promise has fulfilled
AnyFulfilled(chunk, results) ==
    \E j \in 1..Len(chunk) : results[chunk[j]].st = "fulfilled"

AllFulfilled(chunk, results) ==
    \A j \in 1..Len(chunk) : results[chunk[j]].st = "fulfilled"

\* the value of Promise.all: one entry per promise, in the order of the chunk;
\* order lists the positions of the chunk in the order they fulfilled
PromiseAllInSettleOrder(chunk, results, order) ==
    [j \in 1..Len(order) |-> results[order[j]].value]

PromiseAllValues(chunk, results, order) ==
    [j \in 1..Len(chunk) |-> results[chunk[j]].value]

\* the object the per-item function returns
WithCover(item, atts, c) ==
    [key |-> item.key, attachments |-> atts,
     coverUrl |-> c.coverUrl, isB64Cover |-> c.isB64Cover]

ItemWithCover(item, atts, notes) == WithCover(item, atts, ResolveCover(atts, notes))

\* chunk.map(async (item) => ...) up to the first await: both children
\* requests of every item of the chunk are issued. buildLibraryUrl throws when
\* the library is not configured: then no request is issued and the promises
\* are rejected.
StartChunk(cs, c, att, note, res) ==
    LET inChunk(i) == i \in Range(cs[c])
    IN  /\ chunkIdx' = c
        /\ IF LIBRARY_ID
           THEN /\ attFetch'  = [i \in DOMAIN att  |-> IF inChunk(i) THEN InFlight ELSE att[i]]
                /\ noteFetch' = [i \in DOMAIN note |-> IF inChunk(i) THEN InFlight ELSE note[i]]
                /\ itemResult' = [i \in DOMAIN res |->
                                    IF inChunk(i) THEN [st |-> "pending", value |-> NoResult]
                                    ELSE res[i]]
                /\ acPc' = "running"
           ELSE /\ attFetch' = att
                /\ noteFetch' = note
                /\ itemResult' = [i \in DOMAIN res |->
                                    IF inChunk(i) THEN [st |-> "rejected", value |-> NoResult]
                                    ELSE res[i]]
                /\ acPc' = "rejected"

\* attachCoverImages(items) is called
AttachCoverImages ==
    /\ acPc = "idle"
    /\ LET cs == Chunks(items, ATTACHMENT_CONCURRENCY)
       IN  /\ chunks' = cs
           /\ IF Len(cs) = 0
              THEN /\ acPc' = "done"
                   /\ UNCHANGED <<chunkIdx, attFetch, noteFetch, itemResult>>
              ELSE StartChunk(cs, 1, attFetch, noteFetch, itemResult)
    /\ UNCHANGED <<items, settleOrder, withCovers, configVars, libVars, coverVars,
                   topVars, callVars>>

\* the promise of the per-item function after a children request settled
ItemSettled(i, ok, results, att, note) ==
    IF att[i].st = "ok" /\ note[i].st = "ok"
    THEN [results EXCEPT ![i] =
             [st |-> "fulfilled",
              value |-> ItemWithCover(items[i], att[i].data, note[i].data)]]
    ELSE IF ~ok
    THEN [results EXCEPT ![i] = [st |-> "rejected", value |-> NoResult]]
    ELSE results

\* The continuations that run once a children request has settled: att, note,
\* res and order are the requests, the per-item promises and the fulfilment
\* order after it.
Resume(ok, att, note, res, order) ==
    /\ settleOrder' = order
    /\ IF acPc = "running" /\ ~ok
       THEN \* Promise.all rejects, and attachCoverImages with it
            /\ acPc' = "rejected"
            /\ attFetch' = att /\ noteFetch' = note /\ itemResult' = res
            /\ UNCHANGED <<chunkIdx, withCovers>>
       ELSE IF acPc = "running" /\ AllFulfilled(chunks[chunkIdx], res)
       THEN \* withCovers.push(...results), then the next chunk or return
            /\ withCovers' = withCovers \o
                  PromiseAllValues(chunks[chunkIdx], res,
                      SelectSeq(order, LAMBDA p : p \in Range(chunks[chunkIdx])))
            /\ IF chunkIdx < Len(chunks)
               THEN StartChunk(chunks, chunkIdx + 1, att, note, res)
               ELSE /\ acPc' = "done"
                    /\ attFetch' = att /\ noteFetch' = note /\ itemResult' = res
                    /\ UNCHANGED chunkIdx
       ELSE /\ attFetch' = att /\ noteFetch' = note /\ itemResult' = res
            /\ UNCHANGED <<acPc, chunkIdx, withCovers>>

Settled(i, ok, att, note) ==
    Resume(ok, att, note,
           ItemSettled(i, ok, itemResult, att, note),
           IF att[i].st = "ok" /\ note[i].st = "ok"
           THEN Append(settleOrder, i) ELSE settleOrder)

\* the response to a children request: the mapped records, or a failure
Response(ok, data) == IF ok THEN Ok(data) ELSE Failed

\* One children request of the item at position i completes (kind "att" or
\* "note"), successfully or with a non-success status, and every continuation
\* that this makes runnable runs.
FetchSettles(i, kind, ok) ==
    /\ (IF kind = "att" THEN attFetch[i] ELSE noteFetch[i]).st = "inflight"
    /\ Settled(i, ok,
          IF kind # "att" THEN attFetch
          ELSE [attFetch EXCEPT ![i] =
                  Response(ok, MapAttachments(libAttachments[items[i].key]))],
          IF kind # "note" THEN noteFetch
          ELSE [noteFetch EXCEPT ![i] =
                  Response(ok, MapNotes(libNotes[items[i].key]))])
    /\ UNCHANGED <<items, chunks, configVars, libVars, coverVars, topVars, callVars>>

AttachmentsArrive ==
    \E i \in 1..Len(items) : FetchSettles(i, "att", TRUE)

NotesArrive ==
    \E i \in 1..Len(items) : FetchSettles(i, "note", TRUE)

AttachmentsFail ==
    \E i \in 1..Len(items) : FetchSettles(i, "att", FALSE)

NotesFail ==
    \E i \in 1..Len(items) : FetchSettles(i, "note", FALSE)

\* ------------------------------------------------------------------------
\* The libraries and item lists the enrichment is run on
\* ------------------------------------------------------------------------
AttachmentKey1 == <<"A","B","C","D","1","2","3","4">>
AttachmentKey2 == <<"W","X","Y","Z","5","6","7","8">>

ZoteroApiHost == <<"a","p","i",".","z","o","t","e","r","o",".","o","r","g">>
ImageHost == <<"i","m","g",".","e","x","a","m","p","l","e">>

Https(host, path) == [scheme |-> "https", host |-> host, path |-> path, key |-> FALSE]

DataUri(path) == [scheme |-> "data", host |-> <<>>, path |-> path, key |-> FALSE]

PngDataUri == DataUri(<<"i","m","a","g","e","/","p","n","g",";","b","a","s","e","6","4",",","A","A","A","A">>)

\* a stored url with an image extension, one per attachment key
CoverPngUrl(k) == Https(ImageHost, <<"/">> \o k \o <<".","P","N","G">>)

EnclosureUrl(k) == Https(ZoteroApiHost, <<"/","i","t","e","m","s","/">> \o k \o <<"/","f","i","l","e","/","v","i","e","w">>)

SelfUrl(k) == Https(ZoteroApiHost, <<"/","i","t","e","m","s","/">> \o k)

RawAttachment(k, title, ctype, fname, url, enc, self, mode) ==
    [key |-> k, title |-> title, contentType |-> ctype, fileName |-> fname,
     url |-> url, enclosure |-> enc, self |-> self, linkMode |-> mode]

TextToken(chars) ==
    [t |-> "text", chars |-> chars, quoted |-> FALSE, enc |-> FALSE, uri |-> Null, key |-> <<>>]

SrcToken(uri, quoted, enc) ==
    [t |-> "src", chars |-> <<>>, quoted |-> quoted, enc |-> enc, uri |-> uri, key |-> <<>>]

KeyAttrToken(k) ==
    [t |-> "keyattr", chars |-> <<>>, quoted |-> TRUE, enc |-> FALSE, uri |-> Null, key |-> k]

PlaceholderToken(k) ==
    [t |-> "placeholder", chars |-> <<>>, quoted |-> TRUE, enc |-> FALSE, uri |-> Null, key |-> k]

B64Heading == TextToken(<<"B","o","o","k"," ","C","o","v","e","r"," ","(","b","6","4",")">>)

PlainText == TextToken(<<"n","o","t","e","s">>)

RawNote(k, content) == [key |-> k, content |-> content]

WebCoverAttachment ==
    RawAttachment(AttachmentKey1, WebTitle, <<>>, <<>>, CoverPngUrl(AttachmentKey1),
                  Null, Null, "linked_url")

B64Note == RawNote("NOTE0001", <<B64Heading, SrcToken(PngDataUri, TRUE, FALSE)>>)

\* three sample libraries: no children, a web cover on the first item, and a
\* web cover plus a flagged note on the first item
SampleLibraries ==
    { [atts |-> [k \in ItemKeys |-> <<>>], notes |-> [k \in ItemKeys |-> <<>>]],
      [atts |-> [k \in ItemKeys |-> IF k = "ITEMAAA1" THEN <<WebCoverAttachment>> ELSE <<>>],
       notes |-> [k \in ItemKeys |-> IF k = "ITEMAAA1" THEN <<B64Note>> ELSE <<>>]] }

SeqsUpTo(S, n) == UNION {[1..m -> S] : m \in 0..n}

NoCoverOut == PreferB64Cover(Null, Null)

\* an operation that is not called
NotInUse == [pc |-> "off"]

CallsNotInUse ==
    /\ fc = NotInUse
    /\ probe = NotInUse
    /\ bundle = NotInUse
    /\ detail = NotInUse
    /\ resolution = NotInUse

\* fetchTopLevelItems is not called and the server holds no listing
TopNotCalled ==
    /\ limit = 0
    /\ listings = <<>>
    /\ subCollections = 0
    /\ topPc = "idle"
    /\ collectionKeys = <<>>
    /\ runs = <<>>
    /\ finished = <<>>
    /\ warned = FALSE
    /\ topOut = <<>>

Init ==
    /\ LIBRARY_ID \in BOOLEAN
    /\ API_KEY = TRUE
    /\ WEBDAV_BASE_URL = FALSE
    /\ COLLECTION_KEY = FALSE
    /\ ATTACHMENT_CONCURRENCY \in 1..MaxConcurrency
    /\ items \in SeqsUpTo({ItemSummary(k) : k \in ItemKeys}, MaxItems)
    /\ \E lib \in SampleLibraries :
          /\ libAttachments = lib.atts
          /\ libNotes = lib.notes
    /\ acPc = "idle"
    /\ chunks = <<>>
    /\ chunkIdx = 0
    /\ attFetch = [i \in 1..Len(items) |-> NotCalled]
    /\ noteFetch = [i \in 1..Len(items) |-> NotCalled]
    /\ itemResult = [i \in 1..Len(items) |-> [st |-> "none", value |-> NoResult]]
    /\ settleOrder = <<>>
    /\ withCovers = <<>>
    /\ coverPc = "off"
    /\ coverOut = NoCoverOut
    /\ TopNotCalled
    /\ CallsNotInUse

Next ==
    \/ AttachCoverImages
    \/ AttachmentsArrive
    \/ NotesArrive
    \/ AttachmentsFail
    \/ NotesFail

Spec == Init /\ [][Next]_vars

\* ------------------------------------------------------------------------
\* The cover resolver on its own: the children of one item are drawn from
\* bounded sets and the resolver is applied to them
\* ------------------------------------------------------------------------
AttachmentKey3 == <<"q","r","s","t","9","0","1","2">>
AttachmentKey4 == <<"M","N","O","P","3","4","5","6">>

AttachmentKeys == <<AttachmentKey1, AttachmentKey2, AttachmentKey3, AttachmentKey4>>

PaddedWebTitle == <<" ">> \o WebTitle \o <<" ">>
UpperCoverTitle == <<"F","R","O","N","T"," ","C","O","V","E","R">>
PlainTitle == <<"S","c","a","n">>

ImagePng == <<"i","m","a","g","e","/","p","n","g">>
ApplicationPdf == <<"a","p","p","l","i","c","a","t","i","o","n","/","p","d","f">>
PngFileName == <<"a",".","p","n","g">>
PdfFileName == <<"b",".","p","d","f">>

\* the shapes of a child attachment: its title, whether it is an image file,
\* whether it stores a url, and which links the API gives it
AttachmentShapes ==
    [title : {PaddedWebTitle, UpperCoverTitle, PlainTitle},
     image : BOOLEAN,
     hasUrl : BOOLEAN,
     links : {"none", "self"}]

ShapedAttachment(shape, k) ==
    RawAttachment(k, shape.title,
        IF shape.image THEN ImagePng ELSE ApplicationPdf,
        IF shape.image THEN PngFileName ELSE PdfFileName,
        IF shape.hasUrl THEN CoverPngUrl(k) ELSE EmptyStr,
        Null,
        IF shape.links = "self" THEN SelfUrl(k) ELSE Null,
        IF shape.hasUrl THEN "linked_url" ELSE "imported_file")

\* the served attachment lists: the i-th attachment has the i-th key
AttachmentLists(n) ==
    {[i \in 1..Len(shapes) |-> ShapedAttachment(shapes[i], AttachmentKeys[i])] :
        shapes \in SeqsUpTo(AttachmentShapes, n)}

\* the served notes: a flagged note with a data URI, a flagged note that
\* refers to the first attachment, a flagged note with nothing to extract and
\* an unflagged note with a data URI
NotePool ==
    { RawNote("NOTE0001", <<B64Heading, SrcToken(PngDataUri, TRUE, FALSE)>>),
      RawNote("NOTE0002", <<B64Heading, KeyAttrToken(AttachmentKey1)>>),
      RawNote("NOTE0003", <<B64Heading, PlainText>>),
      RawNote("NOTE0004", <<PlainText, SrcToken(PngDataUri, TRUE, FALSE)>>) }

CoverItem == "ITEMAAA1"

ChildrenOf(k, children) == [q \in ItemKeys |-> IF q = k THEN children ELSE <<>>]

InitCover ==
    /\ LIBRARY_ID = TRUE
    /\ API_KEY \in BOOLEAN
    /\ COLLECTION_KEY = FALSE
    /\ ATTACHMENT_CONCURRENCY = 1
    /\ items = <<ItemSummary(CoverItem)>>
    /\ \/ /\ WEBDAV_BASE_URL = FALSE
          /\ \E atts \in AttachmentLists(MaxAttachments) :
                libAttachments = ChildrenOf(CoverItem, atts)
          /\ libNotes = ChildrenOf(CoverItem, <<>>)
       \/ /\ WEBDAV_BASE_URL \in BOOLEAN
          /\ \E atts \in AttachmentLists(MaxNotedAttachments) :
                libAttachments = ChildrenOf(CoverItem, atts)
          /\ \E notes \in SeqsUpTo(NotePool, MaxNotes) :
                libNotes = ChildrenOf(CoverItem, notes)
    /\ acPc = "idle"
    /\ chunks = <<>>
    /\ chunkIdx = 0
    /\ attFetch = [i \in 1..Len(items) |-> NotCalled]
    /\ noteFetch = [i \in 1..Len(items) |-> NotCalled]
    /\ itemResult = [i \in 1..Len(items) |-> [st |-> "none", value |-> NoResult]]
    /\ settleOrder = <<>>
    /\ withCovers = <<>>
    /\ coverPc = "input"
    /\ coverOut = NoCoverOut
    /\ TopNotCalled
    /\ CallsNotInUse

\* the two lists of the item as the fetchers return them
FetchedAttachments == MapAttachments(libAttachments[CoverItem])

FetchedNotes == MapNotes(libNotes[CoverItem])

\* lines 1805-1812 of the per-item function, on the fetched lists
ResolveItemCover ==
    /\ coverPc = "input"
    /\ coverPc' = "done"
    /\ coverOut' = ResolveCover(FetchedAttachments, FetchedNotes)
    /\ UNCHANGED <<configVars, enrichVars, libVars, topVars, callVars>>

NextCover == ResolveItemCover

SpecCover == InitCover /\ [][NextCover]_vars

\* ------------------------------------------------------------------------
\* Properties of the cover resolver
\* ------------------------------------------------------------------------
WebAttachments == {i \in 1..Len(FetchedAttachments) : IsWebCover(FetchedAttachments[i])}

\* every reference an attachment can contribute by itself
OwnReferences(att) ==
    { att.url, att.enclosure, SelfFile(att),
      [att.enclosure EXCEPT !.key = TRUE], [SelfFile(att) EXCEPT !.key = TRUE] }

NoReference(att) == ~Truthy(att.url) /\ ~Truthy(att.enclosure) /\ ~Truthy(att.self)

FirstNoteHoldsDataUri ==
    /\ Len(FetchedNotes) > 0
    /\ IsFlagged(FetchedNotes[1].content)
    /\ \E t \in 1..Len(FetchedNotes[1].content) :
          /\ FetchedNotes[1].content[t].t = "src"
          /\ FetchedNotes[1].content[t].uri = PngDataUri

C6_WebAttachmentChosen ==
    (coverPc = "done" /\ Cardinality(WebAttachments) = 1) =>
        \A w \in WebAttachments :
            /\ coverOut.web \in OwnReferences(FetchedAttachments[w])
            /\ Truthy(FetchedAttachments[w].url) =>
                  coverOut.web = FetchedAttachments[w].url
            /\ \A j \in 1..Len(FetchedAttachments) :
                  (j # w /\ Truthy(coverOut.web)) =>
                      coverOut.web \notin OwnReferences(FetchedAttachments[j])

\* the Web attachment stands second, after an image attachment that collects
\* every bonus of the heuristic
C6_Witness ==
    /\ coverPc = "done"
    /\ WebAttachments = {2}
    /\ Score(FetchedAttachments[1]) = 4 + 2 + 3 + 1
    /\ coverOut.web = FetchedAttachments[2].url
    /\ Truthy(coverOut.web)

\* C7: the resolved coverUrl is null or a non-empty reference, and attachments
\* without a stored url and without links never make the result of
\* chooseCoverUrl anything other than null.
C7_NullOrNonEmptyReference ==
    coverPc = "done" =>
        /\ coverOut.coverUrl = Null \/ Truthy(coverOut.coverUrl)
        /\ (\A i \in 1..Len(FetchedAttachments) : NoReference(FetchedAttachments[i]))
              => coverOut.web = Null

\* ------------------------------------------------------------------------
\* Properties of attachCoverImages (checked under Spec)
\* ------------------------------------------------------------------------
InFlightAttachments == Cardinality({i \in 1..Len(items) : attFetch[i].st = "inflight"})

InFlightNotes == Cardinality({i \in 1..Len(items) : noteFetch[i].st = "inflight"})

\* the chunk the item at position i was put in
ChunkOf(i) == CHOOSE c \in 1..Len(chunks) : i \in Range(chunks[c])

Issued(i) == attFetch[i].st # "none" \/ noteFetch[i].st # "none"

\* C1, as stated: at every instant the requests in flight, attachment-children
\* and note-children requests together, number at most the limit L.
C1_TotalInFlightAtMostL ==
    InFlightAttachments + InFlightNotes <= ATTACHMENT_CONCURRENCY

\* C1, amended: each item of a chunk has two requests in flight, so the
\* requests in flight number at most 2 * L (at most L of each kind).
C1_TotalInFlightAtMostTwiceL ==
    /\ InFlightAttachments + InFlightNotes <= 2 * ATTACHMENT_CONCURRENCY
    /\ InFlightNotes <= ATTACHMENT_CONCURRENCY

C1_Witness ==
    /\ ATTACHMENT_CONCURRENCY = 2
    /\ Len(items) > 2
    /\ InFlightAttachments + InFlightNotes = 2 * ATTACHMENT_CONCURRENCY

\* C2: at most L fetchAttachmentsForItem calls are in flight at any instant,
\* whatever the order in which the requests complete.
C2_AttachmentFetchesAtMostL == InFlightAttachments <= ATTACHMENT_CONCURRENCY

C2_Witness ==
    /\ ATTACHMENT_CONCURRENCY = 2
    /\ Len(items) > 2
    /\ chunkIdx = 2
    /\ InFlightAttachments = ATTACHMENT_CONCURRENCY

\* C3: the chunk boundary is a barrier: when a request of an item of a later
\* chunk has been issued, every item of every earlier chunk has resolved,
\* both its attachment fetch and its note fetch completed.
C3_ChunkBarrier ==
    acPc # "idle" =>
        \A i, j \in 1..Len(items) :
            (ChunkOf(i) < ChunkOf(j) /\ Issued(j)) =>
                /\ itemResult[i].st = "fulfilled"
                /\ attFetch[i].st = "ok"
                /\ noteFetch[i].st = "ok"

\* the second chunk is under way and the first one completed out of order
C3_Witness ==
    /\ chunkIdx = 2
    /\ Len(chunks[1]) = 2
    /\ settleOrder[1] = 2
    /\ Issued(3)
    /\ attFetch[3].st = "inflight"

\* C4: when attachCoverImages resolves, the result is as long as the input
\* and its i-th entry carries the key of the i-th item, whatever the order in
\* which the requests completed.
C4_ResultInInputOrder ==
    acPc = "done" =>
        /\ Len(withCovers) = Len(items)
        /\ \A i \in 1..Len(items) : withCovers[i].key = items[i].key

\* resolved after the second item of a chunk fulfilled before the first one
C4_Witness ==
    /\ acPc = "done"
    /\ ATTACHMENT_CONCURRENCY = 2
    /\ Len(items) >= 3
    /\ items[1].key # items[2].key
    /\ settleOrder[1] = 2

\* ------------------------------------------------------------------------
\* fetchPagedItems(path, limit)
\* ------------------------------------------------------------------------
PageCap == 100           \* Math.min(100, targetCount)

NoTotal == -1            \* totalResults = null: no Total-Results header seen
NoStart == -1            \* a request without the start parameter

\* the filter on item.data?.itemType
IsRetained(rec) == rec.itemType # "attachment" /\ rec.itemType # "note"

\* the object built by .map((item) => ({ key: item.key, ..., raw: item }))
Normalize(rec) == [key |-> rec.key, raw |-> rec]

NormalizeAll(recs) == [i \in 1..Len(recs) |-> Normalize(recs[i])]

Normalized(data) == NormalizeAll(SelectSeq(data, IsRetained))

\* the call before its first pass through the loop
NewRun(path) ==
    [path |-> path, pc |-> "loop", start |-> 0, results |-> <<>>,
     totalResults |-> NoTotal, requests |-> <<>>, pages |-> <<>>]

\* the url of a page request: its limit and, when start > 0, its start
PageRequest(start, requestLimit) ==
    [limit |-> requestLimit, start |-> IF start > 0 THEN start ELSE NoStart]

ReturnResultsUncut(run, targetCount) == [run EXCEPT !.pc = "done"]

\* after the loop: results.slice(0, targetCount) when there are more
ReturnResults(run, targetCount) ==
    [run EXCEPT !.pc = "done",
                !.results = IF Len(@) > targetCount
                            THEN SubSeq(@, 1, targetCount) ELSE @]

LoopHeadFullPage(run, targetCount, pageSize) ==
    IF Len(run.results) < targetCount
    THEN [run EXCEPT !.pc = "waiting",
                     !.requests = Append(@, PageRequest(run.start, pageSize))]
    ELSE ReturnResults(run, targetCount)

\* one evaluation of the loop condition: the next request, or the return
LoopHead(run, targetCount, pageSize) ==
    IF Len(run.results) < targetCount
    THEN [run EXCEPT !.pc = "waiting",
                     !.requests = Append(@, PageRequest(run.start,
                                     Min(pageSize, targetCount - Len(run.results))))]
    ELSE ReturnResults(run, targetCount)

\* const targetCount = limit; const pageSize = Math.min(100, targetCount)
StartRun(path, targetCount) ==
    LoopHead(NewRun(path), targetCount, Min(PageCap, targetCount))

AfterPageIgnoringTotal(run, rawCount, requestLimit, targetCount) ==
    IF rawCount = 0 \/ rawCount < requestLimit
    THEN ReturnResults(run, targetCount)
    ELSE LoopHead([run EXCEPT !.start = @ + rawCount], targetCount,
                  Min(PageCap, targetCount))

AfterPageByRetained(run, rawCount, requestLimit, targetCount) ==
    IF rawCount = 0 \/ rawCount < requestLimit
    THEN ReturnResults(run, targetCount)
    ELSE LoopHead([run EXCEPT !.start = @ + run.pages[Len(run.pages)].retained],
                  targetCount, Min(PageCap, targetCount))

\* the rest of the loop body once results and totalResults are updated
AfterPage(run, rawCount, requestLimit, targetCount) ==
    IF rawCount = 0 \/ rawCount < requestLimit
    THEN ReturnResults(run, targetCount)
    ELSE IF run.totalResults # NoTotal /\ Len(run.results) >= run.totalResults
    THEN ReturnResults([run EXCEPT !.start = @ + rawCount], targetCount)
    ELSE LoopHead([run EXCEPT !.start = @ + rawCount], targetCount,
                  Min(PageCap, targetCount))

\* the loop body from the response on
ReceivePage(run, data, reportedTotal, faithful, targetCount) ==
    AfterPage([run EXCEPT !.results = @ \o Normalized(data),
                          !.totalResults = IF reportedTotal # NoTotal
                                           THEN reportedTotal ELSE @,
                          !.pages = Append(@, [rawCount |-> Len(data),
                                               retained |-> Len(Normalized(data)),
                                               faithful |-> faithful])],
              Len(data), run.requests[Len(run.requests)].limit, targetCount)

\* ------------------------------------------------------------------------
\* The server side of a listing: the records listing[from .. from + n - 1]
\* ------------------------------------------------------------------------
Window(listing, from, n) == SubSeq(listing, from, Min(from + n - 1, Len(listing)))

\* what a server that honours start and limit sends
HonestPage(listing, request) ==
    Window(listing, IF request.start = NoStart THEN 1 ELSE request.start + 1,
           request.limit)

\* the pages explored for a request: the honest one and, while a single
\* listing is in progress, short, shifted and oversized ones
DeviantPages(listing, request, from) ==
    {Window(listing, f, n) : f \in 1..Min(Len(listing), MaxRecords),
                             n \in 0..Min(request.limit + 1, MaxRecords + 1)}
    \cup {Window(listing, from, n) : n \in {request.limit - 1, request.limit + 1}}

Pages(listing, request, deviant) ==
    {HonestPage(listing, request)}
    \cup (IF deviant
          THEN DeviantPages(listing, request,
                            IF request.start = NoStart THEN 1 ELSE request.start + 1)
          ELSE {})

\* the Total-Results header: absent, the size of the listing, or (deviant) a
\* small number
Totals(listing, deviant) ==
    {NoTotal, Len(listing)} \cup (IF deviant THEN 0..MaxRecords ELSE {})

IsFaithful(listing, request, data, reportedTotal) ==
    data = HonestPage(listing, request) /\ reportedTotal \in {NoTotal, Len(listing)}

\* ------------------------------------------------------------------------
\* fetchTopLevelItems(limit)
\* ------------------------------------------------------------------------
TopPath == 0             \* '/items/top'
RootKey == 1             \* `/collections/${COLLECTION_KEY}/items/top`

\* subsData.map((c) => c.key): the sub-collections are the paths 2, 3, ...
SubKeys(n) == [i \in 1..n |-> RootKey + i]

RECURSIVE FlatUpTo(_, _)
\* resultsArrays.flat()
FlatUpTo(arrays, n) ==
    IF n = 0 THEN <<>> ELSE FlatUpTo(arrays, n - 1) \o arrays[n].results

KeepAll(flat) == flat

FirstOccurrences(flat) ==
    {i \in 1..Len(flat) : \A j \in 1..(i - 1) : flat[j].key # flat[i].key}

KeepAt(flat, kept) ==
    [r \in 1..Cardinality(kept) |->
        flat[CHOOSE i \in kept : Cardinality({j \in kept : j <= i}) = r]]

\* the Map filled by forEach, read back in insertion order
UniqueItems(flat) == KeepAt(flat, FirstOccurrences(flat))

\* what fetchTopLevelItems returns once every listing has returned
TopResult(runs1) ==
    IF COLLECTION_KEY THEN UniqueItems(FlatUpTo(runs1, Len(runs1)))
    ELSE runs1[1].results

StartRuns(keys) == [c \in 1..Len(keys) |-> StartRun(keys[c], limit)]

Returned(runs1) == \A c \in 1..Len(runs1) : runs1[c].pc = "done"

\* the continuation of the awaited promise (of the one call, or of
\* Promise.all) after the listings moved to runs1
Settle(runs1, order) ==
    /\ runs' = runs1
    /\ finished' = order
    /\ IF topPc \in {"idle", "listing", "running"} /\ Returned(runs1)
       THEN topPc' = "resolved" /\ topOut' = TopResult(runs1)
       ELSE /\ topPc' = IF topPc \in {"idle", "listing"} THEN "running" ELSE topPc
            /\ UNCHANGED topOut

ReturnedAtOnce(runs1) == SelectSeq([c \in 1..Len(runs1) |-> c], LAMBDA c : runs1[c].pc = "done")

Launch(keys) ==
    /\ collectionKeys' = keys
    /\ Settle(StartRuns(keys), ReturnedAtOnce(StartRuns(keys)))

\* the call: buildLibraryUrl throws without a library configuration (inside
\* the try for the sub-collections, then in every fetchPagedItems)
FetchTopLevelItems ==
    /\ topPc = "idle"
    /\ IF ~LIBRARY_ID
       THEN /\ topPc' = "rejected"
            /\ UNCHANGED <<collectionKeys, runs, finished, topOut>>
       ELSE IF COLLECTION_KEY
       THEN /\ topPc' = "listing"
            /\ UNCHANGED <<collectionKeys, runs, finished, topOut>>
       ELSE Launch(<<TopPath>>)
    /\ warned' = (COLLECTION_KEY /\ ~LIBRARY_ID)
    /\ UNCHANGED <<limit, listings, subCollections>>
    /\ UNCHANGED <<configVars, enrichVars, libVars, coverVars, callVars>>

\* the sub-collection listing arrives: an array of collections, or something
\* that is not an array
SubCollectionsArrive ==
    /\ topPc = "listing"
    /\ \E isArray \in BOOLEAN :
          Launch(<<RootKey>> \o (IF isArray THEN SubKeys(subCollections) ELSE <<>>))
    /\ UNCHANGED <<limit, listings, subCollections, warned>>
    /\ UNCHANGED <<configVars, enrichVars, libVars, coverVars, callVars>>

\* the catch block rethrows
RethrowSubsFailure ==
    /\ topPc' = "rejected"
    /\ warned' = TRUE
    /\ UNCHANGED <<collectionKeys, runs, finished, topOut>>

\* catch (error) { console.warn(...) }, then the listings of collectionKeys
CatchSubsFailure ==
    /\ warned' = TRUE
    /\ Launch(<<RootKey>>)

\* the sub-collection request fails: caught, the root is listed alone
SubCollectionsFail ==
    /\ topPc = "listing"
    /\ CatchSubsFailure
    /\ UNCHANGED <<limit, listings, subCollections>>
    /\ UNCHANGED <<configVars, enrichVars, libVars, coverVars, callVars>>

Waiting == {c \in 1..Len(runs) : runs[c].pc = "waiting"}

LastRequest(run) == run.requests[Len(run.requests)]

OrderAfter(c, run1) == IF run1.pc = "done" THEN Append(finished, c) ELSE finished

Respond(c, run1) ==
    /\ Len(run1.requests) <= MaxPages
    /\ Settle([runs EXCEPT ![c] = run1], OrderAfter(c, run1))

Reply(c, listing, request, data, reportedTotal) ==
    Respond(c, ReceivePage(runs[c], data, reportedTotal,
                           IsFaithful(listing, request, data, reportedTotal), limit))

Serve(c, listing, request, deviant) ==
    \E data \in Pages(listing, request, deviant) :
        \E reportedTotal \in Totals(listing, deviant) :
            Reply(c, listing, request, data, reportedTotal)

\* a page of listing c arrives: the loop of that call runs on to its next
\* request or to its return, and the awaiting caller resumes when every
\* call has returned
PageArrives ==
    /\ \E c \in Waiting :
          Serve(c, listings[runs[c].path], LastRequest(runs[c]), Len(runs) = 1)
    /\ UNCHANGED <<limit, listings, subCollections, collectionKeys, warned>>
    /\ UNCHANGED <<configVars, enrichVars, libVars, coverVars, callVars>>

\* a page request fails: fetchPagedItems rejects, and so does the caller
\* unless it has already
PageFails ==
    /\ \E c \in Waiting :
          /\ runs' = [runs EXCEPT ![c].pc = "failed"]
          /\ topPc' = IF topPc = "running" THEN "rejected" ELSE topPc
    /\ UNCHANGED <<limit, listings, subCollections, collectionKeys, finished, warned,
                   topOut>>
    /\ UNCHANGED <<configVars, enrichVars, libVars, coverVars, callVars>>

\* ------------------------------------------------------------------------
\* The listings served
\* ------------------------------------------------------------------------
Record(key, itemType) == [key |-> key, itemType |-> itemType]

RecordPool ==
    {Record(1, "book"), Record(2, "book"), Record(3, "attachment"), Record(4, "note")}

\* the records of the collections of the rooted configuration
RootedPool == {Record(1, "book"), Record(2, "book")}

\* a long listing of distinct books, with a note at position noteAt (0: none)
BulkListing(n, noteAt) ==
    [i \in 1..n |-> Record(i, IF i = noteAt THEN "note" ELSE "book")]

BulkListings ==
    {BulkListing(150, 0), BulkListing(200, 0), BulkListing(250, 0), BulkListing(300, 0),
     BulkListing(300, 100)}

BulkTargets == {100, 101, 200, 250}

Paths == TopPath..(RootKey + MaxSubs)

OnlyTop(listing) == [q \in Paths |-> IF q = TopPath THEN listing ELSE <<>>]

InitTop ==
    /\ LIBRARY_ID \in BOOLEAN
    /\ API_KEY = TRUE
    /\ WEBDAV_BASE_URL = FALSE
    /\ ATTACHMENT_CONCURRENCY = 1
    /\ \/ /\ COLLECTION_KEY = FALSE
          /\ limit \in 0..MaxTarget
          /\ \E listing \in SeqsUpTo(RecordPool, MaxRecords) : listings = OnlyTop(listing)
          /\ subCollections = 0
       \/ /\ COLLECTION_KEY = FALSE
          /\ limit \in BulkTargets
          /\ \E listing \in BulkListings : listings = OnlyTop(listing)
          /\ subCollections = 0
       \/ /\ COLLECTION_KEY = TRUE
          /\ limit \in 1..MaxTarget
          /\ subCollections \in 0..MaxSubs
          /\ listings \in [Paths -> SeqsUpTo(RootedPool, MaxRootedRecords)]
          /\ listings[TopPath] = <<>>
          /\ \A q \in Paths : q > RootKey + subCollections => listings[q] = <<>>
    /\ topPc = "idle"
    /\ collectionKeys = <<>>
    /\ runs = <<>>
    /\ finished = <<>>
    /\ warned = FALSE
    /\ topOut = <<>>
    /\ items = <<>>
    /\ libAttachments = [k \in ItemKeys |-> <<>>]
    /\ libNotes = [k \in ItemKeys |-> <<>>]
    /\ acPc = "idle"
    /\ chunks = <<>>
    /\ chunkIdx = 0
    /\ attFetch = <<>>
    /\ noteFetch = <<>>
    /\ itemResult = <<>>
    /\ settleOrder = <<>>
    /\ withCovers = <<>>
    /\ coverPc = "off"
    /\ coverOut = NoCoverOut
    /\ CallsNotInUse

NextTop ==
    \/ FetchTopLevelItems
    \/ SubCollectionsArrive
    \/ SubCollectionsFail
    \/ PageArrives
    \/ PageFails

SpecTop == InitTop /\ [][NextTop]_vars

\* ------------------------------------------------------------------------
\* Properties of fetchPagedItems
\* ------------------------------------------------------------------------
RECURSIVE RetainedUpTo(_, _)
\* the number of items pushed to results by the first n pages
RetainedUpTo(pages, n) ==
    IF n = 0 THEN 0 ELSE RetainedUpTo(pages, n - 1) + pages[n].retained

Collected(run) == RetainedUpTo(run.pages, Len(run.pages))

\* C8: a call that returned holds at most targetCount items, and exactly
\* targetCount when its pages held more retained items than that.
C8_AtMostTargetCount ==
    \A c \in 1..Len(runs) :
        runs[c].pc = "done" =>
            /\ Len(runs[c].results) <= limit
            /\ Collected(runs[c]) > limit => Len(runs[c].results) = limit
            /\ Collected(runs[c]) <= limit => Len(runs[c].results) = Collected(runs[c])

C8_Witness ==
    \E c \in 1..Len(runs) :
        /\ runs[c].pc = "done"
        /\ limit > 0
        /\ Collected(runs[c]) > limit
        /\ Len(runs[c].results) = limit

\* ceil(a / b)
CeilDiv(a, b) == (a + b - 1) \div b

\* every page so far is the one a server honouring start and limit sends
Faithful(run) == \A p \in 1..Len(run.pages) : run.pages[p].faithful

\* the listing holds at least t records and no attachment or note
HoldsItems(listing, t) ==
    Len(listing) >= t /\ \A i \in 1..Len(listing) : IsRetained(listing[i])

\* C9: against a faithful listing of at least T retained records a call issues
\* ceil(T/100) requests, the first without start and the i-th with start
\* 100*(i-1), each with limit 100 except the last, which asks for what is
\* missing, and returns the first T records in server order.
C9_PageRequests ==
    \A c \in 1..Len(runs) :
        (/\ runs[c].pc = "done"
         /\ Faithful(runs[c])
         /\ HoldsItems(listings[runs[c].path], limit))
        => /\ Len(runs[c].requests) = CeilDiv(limit, 100)
           /\ \A i \in 1..Len(runs[c].requests) :
                 /\ runs[c].requests[i].start =
                        IF i = 1 THEN NoStart ELSE 100 * (i - 1)
                 /\ runs[c].requests[i].limit =
                        IF i < Len(runs[c].requests) THEN 100
                        ELSE limit - 100 * (i - 1)
           /\ runs[c].results = NormalizeAll(SubSeq(listings[runs[c].path], 1, limit))

C9_Witness ==
    /\ limit = 250
    /\ Len(runs) = 1
    /\ runs[1].pc = "done"
    /\ Faithful(runs[1])
    /\ HoldsItems(listings[runs[1].path], limit)
    /\ [i \in 1..Len(runs[1].requests) |-> runs[1].requests[i].limit] = <<100, 100, 50>>
    /\ Len(runs[1].results) = 250

\* ------------------------------------------------------------------------
\* Properties of fetchTopLevelItems
\* ------------------------------------------------------------------------
KeysOf(its) == {its[i].key : i \in 1..Len(its)}

PositionsOf(its, key) == {i \in 1..Len(its) : its[i].key = key}

\* the listings that returned the key
ListingsWith(key) == {c \in 1..Len(runs) : key \in KeysOf(runs[c].results)}

\* the place of the first occurrence of the key: listing, then position
FirstListing(key) == CHOOSE c \in ListingsWith(key) : \A d \in ListingsWith(key) : c <= d

FirstPlace(key) ==
    <<FirstListing(key),
      CHOOSE i \in PositionsOf(runs[FirstListing(key)].results, key) :
          \A j \in PositionsOf(runs[FirstListing(key)].results, key) : i <= j>>

Before(a, b) == a[1] < b[1] \/ (a[1] = b[1] /\ a[2] < b[2])

\* C10: in the rooted configuration a key returned by two or more listings is
\* once in the resolved array, at the place of its first occurrence in root,
\* then sub-collection order, whatever the order in which the listings return.
C10_SharedKeyOnce ==
    (topPc = "resolved" /\ COLLECTION_KEY) =>
        /\ \A c \in 1..Len(runs) : KeysOf(runs[c].results) \subseteq KeysOf(topOut)
        /\ \A p \in 1..Len(topOut) :
              /\ Cardinality(PositionsOf(topOut, topOut[p].key)) = 1
              /\ \A q \in 1..(p - 1) :
                    Before(FirstPlace(topOut[q].key), FirstPlace(topOut[p].key))

\* the root's and the sub-collection's listing both returned key 1, and the
\* sub-collection's listing returned first
C10_Witness ==
    /\ topPc = "resolved"
    /\ COLLECTION_KEY
    /\ Len(runs) = 2
    /\ finished = <<2, 1>>
    /\ ListingsWith(1) = {1, 2}
    /\ [i \in 1..Len(topOut) |-> topOut[i].key] = <<1>>

\* the records the server holds for a listing have distinct keys
DistinctKeys(listing) ==
    \A i, j \in 1..Len(listing) : listing[i].key = listing[j].key => i = j

\* C11: the array fetchTopLevelItems resolves with holds each item key at
\* most once, rooted or not, also when a page repeats a key of an earlier page
\* (the records the server holds being distinct).
C11_KeysUnique ==
    (topPc = "resolved" /\ \A q \in DOMAIN listings : DistinctKeys(listings[q])) =>
        \A p \in 1..Len(topOut) : Cardinality(PositionsOf(topOut, topOut[p].key)) = 1

\* C12: once the failure of the sub-collection request is caught, the root
\* key alone is listed with at least one page request, the call rejects only
\* if a page request of that listing fails, and it resolves with the items of
\* the root's listing.
C12_RootOnlyAfterSubsFailure ==
    (warned /\ LIBRARY_ID) =>
        /\ collectionKeys = <<RootKey>>
        /\ Len(runs) = 1
        /\ runs[1].path = RootKey
        /\ Len(runs[1].requests) >= 1
        /\ topPc \in {"running", "resolved", "rejected"}
        /\ topPc = "rejected" => runs[1].pc = "failed"
        /\ topPc = "resolved" =>
              /\ runs[1].pc = "done"
              /\ KeysOf(topOut) = KeysOf(runs[1].results)
              /\ KeysOf(topOut) \subseteq KeysOf(listings[RootKey])

C12_Witness ==
    /\ warned
    /\ LIBRARY_ID
    /\ subCollections > 0
    /\ topPc = "resolved"
    /\ Len(topOut) > 0

\* ------------------------------------------------------------------------
\* fetchCollections()
\* ------------------------------------------------------------------------
\* the object built for a collection (its name plays no part here)
Collection(key) == [key |-> key]

\* the root's metadata and the lists the server holds
RootCollection == Collection(RootKey)

SubCollectionList == [i \in 1..subCollections |-> Collection(RootKey + i)]

TopCollectionList == [i \in 1..(subCollections + 1) |-> Collection(i)]

\* the call before it is made: its requests ("none" | "inflight" | "ok" |
\* "failed"), whether the list received is an array, and its outcome
FcIdle ==
    [pc |-> "idle", root |-> "none", subs |-> "none", top |-> "none",
     isArray |-> TRUE, warned |-> FALSE, sent |-> 0, out |-> <<>>]

\* catch (error) { console.warn(...); return []; }
FcCaught(call) == [call EXCEPT !.pc = "resolved", !.warned = TRUE, !.out = <<>>]

FcSubsFirst(call, subsList) ==
    [call EXCEPT !.pc = "resolved", !.out = subsList \o <<RootCollection>>]

\* return [rootCollection, ...subCollections]
FcRooted(call, subsList) ==
    [call EXCEPT !.pc = "resolved", !.out = <<RootCollection>> \o subsList]

\* the call: buildLibraryUrl throws without a library configuration, inside
\* the try in the rooted branch and outside any try in the unrooted one
FetchCollections ==
    /\ fc.pc = "idle"
    /\ fc' = IF COLLECTION_KEY
             THEN IF ~LIBRARY_ID THEN FcCaught(fc)
                  ELSE [fc EXCEPT !.pc = "waiting", !.root = "inflight",
                                  !.subs = "inflight", !.sent = 2]
             ELSE IF ~LIBRARY_ID THEN [fc EXCEPT !.pc = "rejected"]
                  ELSE [fc EXCEPT !.pc = "waiting", !.top = "inflight", !.sent = 1]
    /\ UNCHANGED <<probe, bundle, detail, resolution>>
    /\ UNCHANGED <<configVars, enrichVars, libVars, coverVars, topVars>>

\* the continuation of the await once the requests stand as in call
FcResume(call) ==
    IF fc.pc # "waiting" THEN call
    ELSE IF COLLECTION_KEY
    THEN IF call.root = "failed" \/ call.subs = "failed" THEN FcCaught(call)
         ELSE IF call.root = "ok" /\ call.subs = "ok"
         THEN FcRooted(call, IF call.isArray THEN SubCollectionList ELSE <<>>)
         ELSE call
    ELSE IF call.top = "failed" \/ ~call.isArray THEN [call EXCEPT !.pc = "rejected"]
         ELSE [call EXCEPT !.pc = "resolved", !.out = TopCollectionList]

FcInFlight == {which \in {"root", "subs", "top"} : fc[which] = "inflight"}

\* a request of fetchCollections is answered; a list may be something that
\* is not an array
CollectionsResponse ==
    /\ \E which \in FcInFlight :
          \E isArray \in (IF which = "root" THEN {TRUE} ELSE BOOLEAN) :
              fc' = FcResume([fc EXCEPT ![which] = "ok",
                                        !.isArray = (@ /\ isArray)])
    /\ UNCHANGED <<probe, bundle, detail, resolution>>
    /\ UNCHANGED <<configVars, enrichVars, libVars, coverVars, topVars>>

\* a request of fetchCollections fails
CollectionsFailure ==
    /\ \E which \in FcInFlight : fc' = FcResume([fc EXCEPT ![which] = "failed"])
    /\ UNCHANGED <<probe, bundle, detail, resolution>>
    /\ UNCHANGED <<configVars, enrichVars, libVars, coverVars, topVars>>

\* ------------------------------------------------------------------------
\* getCollectionItemCount and findFirstNonEmptyCollection(collections)
\* ------------------------------------------------------------------------
NoKey == 0               \* null where a collection key is expected

\* return totalResults ?? 0
CountOf(header) == IF header = NoTotal THEN 0 ELSE header

\* the call before it is made; i is the position being probed (from 1)
ProbeIdle(collections) ==
    [pc |-> "idle", collections |-> collections, i |-> 0, log |-> <<>>,
     out |-> NoKey]

\* one probe: the header received (NoTotal when absent or when the request
\* failed) and the count getCollectionItemCount returned for it
Probed(key, header, failed, count) ==
    [key |-> key, header |-> header, failed |-> failed, count |-> count]

\* the call
FindFirstNonEmptyCollection ==
    /\ probe.pc = "idle"
    /\ probe' = IF Len(probe.collections) = 0
                THEN [probe EXCEPT !.pc = "resolved", !.out = NoKey]
                ELSE IF ~LIBRARY_ID THEN [probe EXCEPT !.pc = "rejected"]
                ELSE [probe EXCEPT !.pc = "waiting", !.i = 1]
    /\ UNCHANGED <<fc, bundle, detail, resolution>>
    /\ UNCHANGED <<configVars, enrichVars, libVars, coverVars, topVars>>

ProbeLast(call, count) ==
    IF count > 0
    THEN [call EXCEPT !.pc = "resolved", !.out = call.collections[call.i].key]
    ELSE IF call.i < Len(call.collections)
    THEN [call EXCEPT !.i = @ + 1]
    ELSE [call EXCEPT !.pc = "resolved",
                      !.out = call.collections[Len(call.collections)].key]

\* after a count came back: return the key, probe the next collection, or
\* fall back to the key at position 0
ProbeNext(call, count) ==
    IF count > 0
    THEN [call EXCEPT !.pc = "resolved", !.out = call.collections[call.i].key]
    ELSE IF call.i < Len(call.collections)
    THEN [call EXCEPT !.i = @ + 1]
    ELSE [call EXCEPT !.pc = "resolved", !.out = call.collections[1].key]

ProbeSettles(header, failed, count) ==
    probe' = ProbeNext([probe EXCEPT !.log = Append(@,
                           Probed(probe.collections[probe.i].key, header, failed, count))],
                       count)

\* the count request is answered, with or without a Total-Results header
CountArrives ==
    /\ probe.pc = "waiting"
    /\ \E header \in {NoTotal} \cup 0..MaxRootedRecords :
          ProbeSettles(header, FALSE, CountOf(header))
    /\ UNCHANGED <<fc, bundle, detail, resolution>>
    /\ UNCHANGED <<configVars, enrichVars, libVars, coverVars, topVars>>

\* the count request fails: caught, the count is 0
CountFails ==
    /\ probe.pc = "waiting"
    /\ ProbeSettles(NoTotal, TRUE, 0)
    /\ UNCHANGED <<fc, bundle, detail, resolution>>
    /\ UNCHANGED <<configVars, enrichVars, libVars, coverVars, topVars>>

CollectionLists ==
    SeqsUpTo({Collection(k) : k \in RootKey..(RootKey + MaxSubs)}, MaxSubs + 1)

InitCollections ==
    /\ LIBRARY_ID \in BOOLEAN
    /\ API_KEY = TRUE
    /\ WEBDAV_BASE_URL = FALSE
    /\ COLLECTION_KEY \in BOOLEAN
    /\ ATTACHMENT_CONCURRENCY = 1
    /\ subCollections \in 0..MaxSubs
    /\ fc = FcIdle
    /\ \E collections \in CollectionLists : probe = ProbeIdle(collections)
    /\ bundle = NotInUse
    /\ detail = NotInUse
    /\ resolution = NotInUse
    /\ limit = 0
    /\ listings = <<>>
    /\ topPc = "idle"
    /\ collectionKeys = <<>>
    /\ runs = <<>>
    /\ finished = <<>>
    /\ warned = FALSE
    /\ topOut = <<>>
    /\ items = <<>>
    /\ libAttachments = [k \in ItemKeys |-> <<>>]
    /\ libNotes = [k \in ItemKeys |-> <<>>]
    /\ acPc = "idle"
    /\ chunks = <<>>
    /\ chunkIdx = 0
    /\ attFetch = <<>>
    /\ noteFetch = <<>>
    /\ itemResult = <<>>
    /\ settleOrder = <<>>
    /\ withCovers = <<>>
    /\ coverPc = "off"
    /\ coverOut = NoCoverOut

NextCollections ==
    \/ FetchCollections
    \/ CollectionsResponse
    \/ CollectionsFailure
    \/ FindFirstNonEmptyCollection
    \/ CountArrives
    \/ CountFails

SpecCollections == InitCollections /\ [][NextCollections]_vars

\* ------------------------------------------------------------------------
\* Properties of fetchCollections and findFirstNonEmptyCollection
\* ------------------------------------------------------------------------
\* the list of a rooted call whose two requests succeeded
FullCollectionList ==
    <<RootCollection>> \o (IF fc.isArray THEN SubCollectionList ELSE <<>>)

IsShorterPrefix(list, full) ==
    Len(list) < Len(full) /\ list = SubSeq(full, 1, Len(list))

\* C13: with a root configured fetchCollections never rejects; when both
\* requests succeeded it has resolved with the root at position 0 followed by
\* the sub-collections, and when one of them failed it has resolved with an
\* empty or partial list.
C13_RootFirstOrDegraded ==
    (COLLECTION_KEY /\ LIBRARY_ID /\ fc.pc # "idle") =>
        /\ fc.pc # "rejected"
        /\ (fc.root = "ok" /\ fc.subs = "ok") =>
              /\ fc.pc = "resolved"
              /\ fc.out = FullCollectionList
              /\ fc.out[1] = RootCollection
        /\ (fc.root = "failed" \/ fc.subs = "failed") =>
              /\ fc.pc = "resolved"
              /\ IsShorterPrefix(fc.out, FullCollectionList)
        /\ fc.pc = "resolved" =>
              \/ fc.root = "ok" /\ fc.subs = "ok"
              \/ fc.root = "failed" \/ fc.subs = "failed"

C13_Witness ==
    /\ COLLECTION_KEY
    /\ subCollections > 0
    /\ fc.pc = "resolved"
    /\ fc.root = "ok"
    /\ fc.subs = "ok"
    /\ Len(fc.out) = 1 + subCollections
    /\ fc.out[1] = RootCollection

NonZero(log) == {j \in 1..Len(log) : log[j].count # 0}

\* C14: findFirstNonEmptyCollection resolves with null for the empty list;
\* otherwise it probes the collections in list order and resolves with the
\* key of the first whose count is not zero, or with the key at position 0
\* when every count is zero.
C14_FirstNonEmpty ==
    probe.pc = "resolved" =>
        IF Len(probe.collections) = 0
        THEN probe.out = NoKey /\ probe.log = <<>>
        ELSE /\ Len(probe.log) \in 1..Len(probe.collections)
             /\ \A j \in 1..Len(probe.log) :
                   probe.log[j].key = probe.collections[j].key
             /\ IF NonZero(probe.log) = {}
                THEN /\ Len(probe.log) = Len(probe.collections)
                     /\ probe.out = probe.collections[1].key
                ELSE /\ NonZero(probe.log) = {Len(probe.log)}
                     /\ probe.out = probe.collections[Len(probe.log)].key

C14_Witness ==
    /\ probe.pc = "resolved"
    /\ Len(probe.collections) = 2
    /\ probe.collections[1].key # probe.collections[2].key
    /\ [j \in 1..Len(probe.log) |-> probe.log[j].count] = <<0, 1>>
    /\ probe.out = probe.collections[2].key

\* C15: a count request answered without the Total-Results header does not
\* make the probe report zero items for the collection.
C15_AbsentHeaderIsUnknown ==
    \A j \in 1..Len(probe.log) :
        (probe.log[j].header = NoTotal /\ ~probe.log[j].failed)
            => probe.log[j].count # 0

\* C19: without a library configuration fetchCollections and
\* findFirstNonEmptyCollection (on a non-empty list) reject and send nothing,
\* with and without a root collection.
C19_ConfigErrorSurfaces ==
    ~LIBRARY_ID =>
        /\ fc.pc # "idle" => (fc.pc = "rejected" /\ fc.sent = 0)
        /\ (probe.pc # "idle" /\ Len(probe.collections) > 0) =>
              (probe.pc = "rejected" /\ probe.log = <<>>)

\* ------------------------------------------------------------------------
\* The attachment record and the cover of one served attachment, over hosts
\* inside and outside the API's domain
\* ------------------------------------------------------------------------
NotZoteroHost == <<"n","o","t","z","o","t","e","r","o",".","o","r","g">>

HostPool == {ZoteroApiHost, ZoteroOrg, NotZoteroHost, ImageHost}

PngOn(host) == Https(host, <<"/","c",".","p","n","g">>)

\* the links and the stored url an attachment may be served with
ServedLinks ==
    {[enclosure |-> Null, self |-> Null]}
    \cup {[enclosure |-> PngOn(h), self |-> Null] : h \in HostPool}
    \cup {[enclosure |-> Null, self |-> PngOn(h)] : h \in HostPool}
    \cup {[enclosure |-> PngOn(ZoteroApiHost), self |-> PngOn(ImageHost)],
          [enclosure |-> EmptyStr, self |-> PngOn(ImageHost)]}

ServedUrls == {EmptyStr} \cup {PngOn(h) : h \in HostPool}

ServedAttachments ==
    {RawAttachment(AttachmentKey1, title, ctype, <<>>, url, links.enclosure,
                   links.self, mode) :
        title \in {WebTitle, PlainTitle}, ctype \in {ImagePng, ApplicationPdf},
        url \in ServedUrls, links \in ServedLinks,
        mode \in {"linked_url", "imported_file"}}

InitResolve ==
    /\ LIBRARY_ID = TRUE
    /\ API_KEY \in BOOLEAN
    /\ WEBDAV_BASE_URL \in BOOLEAN
    /\ COLLECTION_KEY = FALSE
    /\ ATTACHMENT_CONCURRENCY = 1
    /\ \E raw \in ServedAttachments : resolution = [pc |-> "input", raw |-> raw]
    /\ fc = NotInUse
    /\ probe = NotInUse
    /\ bundle = NotInUse
    /\ detail = NotInUse
    /\ TopNotCalled
    /\ items = <<>>
    /\ libAttachments = [k \in ItemKeys |-> <<>>]
    /\ libNotes = [k \in ItemKeys |-> <<>>]
    /\ acPc = "idle"
    /\ chunks = <<>>
    /\ chunkIdx = 0
    /\ attFetch = <<>>
    /\ noteFetch = <<>>
    /\ itemResult = <<>>
    /\ settleOrder = <<>>
    /\ withCovers = <<>>
    /\ coverPc = "off"
    /\ coverOut = NoCoverOut

Resolved(raw, att) ==
    [pc |-> "done", raw |-> raw, att |-> att, cover |-> chooseCoverUrl(<<att>>)]

\* attachments.map(...) on the served attachment, then chooseCoverUrl on it
ResolveAttachment ==
    /\ resolution.pc = "input"
    /\ resolution' = Resolved(resolution.raw, MapAttachment(resolution.raw))
    /\ UNCHANGED <<fc, probe, bundle, detail>>
    /\ UNCHANGED <<configVars, enrichVars, libVars, coverVars, topVars>>

NextResolve == ResolveAttachment

SpecResolve == InitResolve /\ [][NextResolve]_vars

\* the host is zotero.org or one of its subdomains
InApiDomain(host) == host = ZoteroOrg \/ EndsWith(host, <<".">> \o ZoteroOrg)

\* a reference built from a link by appendKeyToUrl carries the key if and only
\* if its host is in the API's domain
KeyOnlyInApiDomain(u) == Truthy(u) => (u.key <=> InApiDomain(u.host))

\* C16: with an API key configured, the resolved url and the cover url built
\* from an enclosure or self link carry the key if and only if the host of the
\* link is zotero.org or one of its subdomains; a WebDAV url never carries it.
C16_KeyOnlyOnApiDomain ==
    (resolution.pc = "done" /\ API_KEY) =>
        /\ resolution.att.resolvedUrl.host = WebDavHost => ~resolution.att.resolvedUrl.key
        /\ resolution.att.resolvedUrl # resolution.raw.url
              => KeyOnlyInApiDomain(resolution.att.resolvedUrl)
        /\ resolution.cover # resolution.raw.url
              => KeyOnlyInApiDomain(resolution.cover)

\* ------------------------------------------------------------------------
\* extractRelatedKeys(relations). The relation map is the sequence of its
\* values in insertion order; a value is a string, an array of strings or
\* something else
\* ------------------------------------------------------------------------
ItemsSlash == <<"i","t","e","m","s","/">>

\* the places where /items\/([A-Z0-9]{8})/i matches
KeyMatches(chars) ==
    {i \in 1..(Len(chars) - 13) :
        /\ ToLower(SubSeq(chars, i, i + 5)) = ItemsSlash
        /\ IsKey8(SubSeq(chars, i + 6, i + 13))}

KeyAt(chars, m) == IF m = 0 THEN <<>> ELSE SubSeq(chars, m + 6, m + 13)

\* value.match(...)?.[1]: the captured key, or nothing (the empty sequence)
MatchedKey(chars) == KeyAt(chars, FirstMatch(KeyMatches(chars)))

\* the strings the two branches of the forEach look at, in order
StringsOf(value) ==
    CASE value.kind = "string" -> <<value.chars>>
      [] value.kind = "array"  -> value.entries
      [] OTHER -> <<>>

RECURSIVE StringsUpTo(_, _)
StringsUpTo(values, n) ==
    IF n = 0 THEN <<>> ELSE StringsUpTo(values, n - 1) \o StringsOf(values[n])

MatchedKeys(strings) == [i \in 1..Len(strings) |-> MatchedKey(strings[i])]

IsKey(k) == k # <<>>

FirstSeen(keys) == {i \in 1..Len(keys) : \A j \in 1..(i - 1) : keys[j] # keys[i]}

\* [...new Set(keys)]
DistinctKeysOf(keys) == KeepAt(keys, FirstSeen(keys))

extractRelatedKeys(relations) ==
    DistinctKeysOf(SelectSeq(MatchedKeys(StringsUpTo(relations, Len(relations))), IsKey))

\* ------------------------------------------------------------------------
\* fetchItemBundle(itemKey)
\* ------------------------------------------------------------------------
\* item.data?.relations ?? {}
RelationsOrEmpty(data) == IF data.hasRelations THEN data.relations ELSE <<>>

\* the call before it is made: the data of the item the server holds, the
\* four requests ("none" | "inflight" | "ok"
\* | "failed"), the requests in the order they were sent, the keys found in
\* the relations, the keys the lookup carried and the relatedItems returned
BundleIdle(data) ==
    [pc |-> "idle", data |-> data, item |-> "none", attachments |-> "none",
     notes |-> "none", related |-> "none", sent |-> <<>>, relatedKeys |-> <<>>,
     lookup |-> <<>>, relatedItems |-> <<>>]

\* the call: fetchItemDetails is awaited first, alone
FetchItemBundle ==
    /\ bundle.pc = "idle"
    /\ bundle' = IF ~LIBRARY_ID THEN [bundle EXCEPT !.pc = "rejected"]
                 ELSE [bundle EXCEPT !.pc = "waiting", !.item = "inflight",
                                     !.sent = <<"item">>]
    /\ UNCHANGED <<fc, probe, detail, resolution>>
    /\ UNCHANGED <<configVars, enrichVars, libVars, coverVars, topVars>>

ChildrenOneByOne(call) ==
    [call EXCEPT !.item = "ok", !.attachments = "inflight",
                 !.sent = @ \o <<"attachments">>]

\* Promise.all([fetchAttachmentsForItem(itemKey), fetchNotesForItem(itemKey)])
ChildrenTogether(call) ==
    [call EXCEPT !.item = "ok", !.attachments = "inflight", !.notes = "inflight",
                 !.sent = @ \o <<"attachments", "notes">>]

\* the item arrives
ItemArrives ==
    /\ bundle.pc = "waiting"
    /\ bundle.item = "inflight"
    /\ bundle' = ChildrenTogether(bundle)
    /\ UNCHANGED <<fc, probe, detail, resolution>>
    /\ UNCHANGED <<configVars, enrichVars, libVars, coverVars, topVars>>

LookupAlways(call, keys) ==
    [call EXCEPT !.relatedKeys = keys, !.related = "inflight", !.lookup = keys,
                 !.sent = Append(@, "related")]

\* fetchItemsByKeys(relatedKeys): nothing is sent for no keys
fetchItemsByKeys(call, keys) ==
    IF Len(keys) = 0
    THEN [call EXCEPT !.relatedKeys = keys, !.pc = "resolved", !.relatedItems = <<>>]
    ELSE [call EXCEPT !.relatedKeys = keys, !.related = "inflight", !.lookup = keys,
                      !.sent = Append(@, "related")]

BundleResumeLenient(call) ==
    IF call.pc # "waiting" THEN call
    ELSE IF call.attachments \in {"ok", "failed"} /\ call.notes \in {"ok", "failed"}
    THEN fetchItemsByKeys(call, extractRelatedKeys(RelationsOrEmpty(call.data)))
    ELSE call

\* the continuation of Promise.all once the children requests stand as in call
BundleResume(call) ==
    IF call.pc # "waiting" THEN call
    ELSE IF call.attachments = "failed" \/ call.notes = "failed"
    THEN [call EXCEPT !.pc = "rejected"]
    ELSE IF call.attachments = "ok" /\ call.notes = "ok"
    THEN fetchItemsByKeys(call, extractRelatedKeys(RelationsOrEmpty(call.data)))
    ELSE call

ChildrenInFlight == {which \in {"attachments", "notes"} : bundle[which] = "inflight"}

\* a children request of the bundle is answered or fails
BundleChildrenSettle ==
    /\ \E which \in ChildrenInFlight : \E outcome \in {"ok", "failed"} :
          bundle' = BundleResume([bundle EXCEPT ![which] = outcome])
    /\ UNCHANGED <<fc, probe, detail, resolution>>
    /\ UNCHANGED <<configVars, enrichVars, libVars, coverVars, topVars>>

\* the item request or the lookup fails: the call rejects
BundleRequestFails ==
    /\ bundle.pc = "waiting"
    /\ \E which \in {"item", "related"} :
          /\ bundle[which] = "inflight"
          /\ bundle' = [bundle EXCEPT ![which] = "failed", !.pc = "rejected"]
    /\ UNCHANGED <<fc, probe, detail, resolution>>
    /\ UNCHANGED <<configVars, enrichVars, libVars, coverVars, topVars>>

\* the lookup is answered: the items of the keys asked for
RelatedArrive ==
    /\ bundle.pc = "waiting"
    /\ bundle.related = "inflight"
    /\ bundle' = [bundle EXCEPT !.related = "ok", !.pc = "resolved",
                                !.relatedItems = bundle.lookup]
    /\ UNCHANGED <<fc, probe, detail, resolution>>
    /\ UNCHANGED <<configVars, enrichVars, libVars, coverVars, topVars>>

\* ------------------------------------------------------------------------
\* fetchItemBundle on items with small relation maps
\* ------------------------------------------------------------------------
OwlSameAs == <<"z",".","o","r","g","/","i","t","e","m","s","/","A","B","C","D","1","2","3","4">>
DcRelation == <<"z",".","o","r","g","/","i","t","e","m","s","/","E","F","G","H","5","6","7","8">>
MixedCase == <<"z",".","o","r","g","/","I","t","e","m","s","/","a","b","c","d","1","2","3","4">>
ShortKey == <<"z",".","o","r","g","/","i","t","e","m","s","/","A","B","C","D","-","1","2">>
LongKey == <<"z",".","o","r","g","/","i","t","e","m","s","/","W","X","Y","Z","1","2","3","4","5">>
TwoKeys == ShortKey \o <<" ">> \o DcRelation \o <<" ">> \o OwlSameAs

StringValue(chars) == [kind |-> "string", chars |-> chars]
ArrayValue(entries) == [kind |-> "array", entries |-> entries]

RelationValues ==
    {StringValue(OwlSameAs), StringValue(DcRelation), StringValue(MixedCase),
     StringValue(ShortKey), StringValue(LongKey), StringValue(TwoKeys),
     ArrayValue(<<>>), ArrayValue(<<DcRelation, ShortKey, OwlSameAs, DcRelation>>),
     [kind |-> "other"]}

RelationMaps == SeqsUpTo(RelationValues, MaxRelations)

ItemData ==
    {[hasRelations |-> FALSE, relations |-> <<>>]}
        \cup {[hasRelations |-> TRUE, relations |-> r] : r \in RelationMaps}

\* none of the operations of the cover enrichment is called
EnrichNotCalled ==
    /\ items = <<>>
    /\ libAttachments = [k \in ItemKeys |-> <<>>]
    /\ libNotes = [k \in ItemKeys |-> <<>>]
    /\ acPc = "idle"
    /\ chunks = <<>>
    /\ chunkIdx = 0
    /\ attFetch = <<>>
    /\ noteFetch = <<>>
    /\ itemResult = <<>>
    /\ settleOrder = <<>>
    /\ withCovers = <<>>
    /\ coverPc = "off"
    /\ coverOut = NoCoverOut

InitBundle ==
    /\ LIBRARY_ID \in BOOLEAN
    /\ API_KEY = TRUE
    /\ WEBDAV_BASE_URL = FALSE
    /\ COLLECTION_KEY = FALSE
    /\ ATTACHMENT_CONCURRENCY = 1
    /\ \E data \in ItemData : bundle = BundleIdle(data)
    /\ fc = NotInUse
    /\ probe = NotInUse
    /\ detail = NotInUse
    /\ resolution = NotInUse
    /\ TopNotCalled
    /\ EnrichNotCalled

NextBundle ==
    \/ FetchItemBundle
    \/ ItemArrives
    \/ BundleChildrenSettle
    \/ BundleRequestFails
    \/ RelatedArrive

SpecBundle == InitBundle /\ [][NextBundle]_vars

\* ------------------------------------------------------------------------
\* Properties of fetchItemBundle
\* ------------------------------------------------------------------------
\* every string of the relation map, whether a value or an entry of a value
RelationStrings(data) ==
    UNION {Range(StringsOf(data.relations[i])) : i \in 1..Len(data.relations)}

\* the keys the strings of the relation map name
NamedKeys(data) ==
    IF data.hasRelations
    THEN {MatchedKey(chars) : chars \in RelationStrings(data)} \ {<<>>}
    ELSE {}

Lookups(call) == {i \in 1..Len(call.sent) : call.sent[i] = "related"}

\* C17: when the relation map of the item names no key, fetchItemBundle sends
\* no lookup of related items and returns relatedItems = []; when it names a
\* key, the call that resolves has sent exactly one lookup, which carries
\* every named key once.
C17_OneLookupOrNone ==
    bundle.pc \in {"idle", "waiting", "resolved", "rejected"} =>
        /\ Cardinality(Lookups(bundle)) <= 1
        /\ NamedKeys(bundle.data) = {} =>
              /\ Lookups(bundle) = {}
              /\ bundle.pc = "resolved" => bundle.relatedItems = <<>>
        /\ NamedKeys(bundle.data) # {} =>
              /\ bundle.pc = "resolved" => Cardinality(Lookups(bundle)) = 1
              /\ Lookups(bundle) # {} =>
                    /\ Range(bundle.lookup) = NamedKeys(bundle.data)
                    /\ Len(bundle.lookup) = Cardinality(NamedKeys(bundle.data))

\* a resolved call on a relation map that names one of two keys twice
C17_Witness ==
    /\ bundle.pc = "resolved"
    /\ Len(bundle.lookup) = 2
    /\ Len(bundle.relatedItems) = 2
    /\ Cardinality(Lookups(bundle)) = 1
    /\ \E i \in 1..Len(bundle.data.relations) :
          /\ bundle.data.relations[i].kind = "array"
          /\ Len(bundle.data.relations[i].entries) > 2

\* C18 as stated: the item request, the attachments request and the notes
\* request are in flight together before any of them has completed.
C18_ThreeInFlightTogether ==
    bundle.pc \in {"waiting", "resolved", "rejected"} =>
        (bundle.item # "none" => bundle.attachments # "none" /\ bundle.notes # "none")

\* C18: the item request is sent alone; the attachments request and the notes
\* request are sent together, and only once the item has arrived; the
\* requests are sent in that order.
C18_ChildrenTogetherAfterItem ==
    bundle.pc \in {"waiting", "resolved", "rejected"} =>
        /\ (bundle.attachments = "none") <=> (bundle.notes = "none")
        /\ bundle.attachments # "none" => bundle.item = "ok"
        /\ bundle.item = "inflight" => bundle.sent = <<"item">>
        /\ bundle.attachments # "none" =>
              SubSeq(bundle.sent, 1, 3) = <<"item", "attachments", "notes">>

\* the item has arrived and both children requests are in flight
C18_Witness ==
    /\ bundle.pc = "waiting"
    /\ bundle.item = "ok"
    /\ bundle.attachments = "inflight"
    /\ bundle.notes = "inflight"

\* ------------------------------------------------------------------------
\* The detail panel: openItemDetail(item), closeDetail() and the outcomes of
\* the fetchItemBundle calls of openItemDetail
\* ------------------------------------------------------------------------
DetailKeys == 1..MaxDetailItems

NoSections == [from |-> NoKey, kind |-> "cleared"]

\* the panel before any item is opened: the overlay is hidden; pending[k] is
\* the number of fetchItemBundle calls for item k that have not settled
DetailClosed ==
    [pc |-> "panel", hidden |-> TRUE, activeItemKey |-> NoKey, data |-> NoKey,
     header |-> NoKey, meta |-> "none", sections |-> NoSections, loading |-> TRUE,
     toasts |-> FALSE, opens |-> 0, pending |-> [k \in DetailKeys |-> 0]]

\* openItemDetail(item) up to its await
Opened(panel, key) ==
    [panel EXCEPT !.hidden = FALSE, !.activeItemKey = key, !.sections = NoSections,
                  !.loading = TRUE, !.header = key, !.meta = "loading",
                  !.opens = @ + 1, !.pending[key] = @ + 1]

OpenItemDetail ==
    /\ detail.pc = "panel"
    /\ detail.opens < MaxOpens
    /\ \E key \in DetailKeys : detail' = Opened(detail, key)
    /\ UNCHANGED <<fc, probe, bundle, resolution>>
    /\ UNCHANGED <<configVars, enrichVars, libVars, coverVars, topVars>>

\* closeDetail(): nothing happens while the overlay is hidden
CloseDetail ==
    /\ detail.pc = "panel"
    /\ ~detail.hidden
    /\ detail' = [detail EXCEPT !.hidden = TRUE, !.activeItemKey = NoKey,
                                !.data = NoKey, !.sections = NoSections,
                                !.loading = TRUE]
    /\ UNCHANGED <<fc, probe, bundle, resolution>>
    /\ UNCHANGED <<configVars, enrichVars, libVars, coverVars, topVars>>

\* renderDetailBundle(bundle, item)
renderDetailBundle(panel, key) ==
    [panel EXCEPT !.data = key, !.header = key, !.meta = "bundle",
                  !.sections = [from |-> key, kind |-> "bundle"],
                  !.loading = FALSE]

\* the try branch after the await: a bundle of another item is dropped
BundleRendered(panel, key) ==
    IF panel.activeItemKey # key THEN panel ELSE renderDetailBundle(panel, key)

\* the catch branch: the sections are filled from the item of the grid
FallbackRendered(panel, key) ==
    [panel EXCEPT !.toasts = TRUE,
                  !.sections = [from |-> key, kind |-> "fallback"],
                  !.loading = FALSE]

BundleSettled(panel, key) == [panel EXCEPT !.pending[key] = @ - 1]

\* a fetchItemBundle call of openItemDetail resolves
BundleArrives ==
    /\ detail.pc = "panel"
    /\ \E key \in DetailKeys :
          /\ detail.pending[key] > 0
          /\ detail' = BundleRendered(BundleSettled(detail, key), key)
    /\ UNCHANGED <<fc, probe, bundle, resolution>>
    /\ UNCHANGED <<configVars, enrichVars, libVars, coverVars, topVars>>

\* a fetchItemBundle call of openItemDetail rejects
BundleFails ==
    /\ detail.pc = "panel"
    /\ \E key \in DetailKeys :
          /\ detail.pending[key] > 0
          /\ detail' = FallbackRendered(BundleSettled(detail, key), key)
    /\ UNCHANGED <<fc, probe, bundle, resolution>>
    /\ UNCHANGED <<configVars, enrichVars, libVars, coverVars, topVars>>

InitDetail ==
    /\ LIBRARY_ID = TRUE
    /\ API_KEY = TRUE
    /\ WEBDAV_BASE_URL = FALSE
    /\ COLLECTION_KEY = FALSE
    /\ ATTACHMENT_CONCURRENCY = 1
    /\ detail = DetailClosed
    /\ fc = NotInUse
    /\ probe = NotInUse
    /\ bundle = NotInUse
    /\ resolution = NotInUse
    /\ TopNotCalled
    /\ EnrichNotCalled

NextDetail ==
    \/ OpenItemDetail
    \/ CloseDetail
    \/ BundleArrives
    \/ BundleFails

SpecDetail == InitDetail /\ [][NextDetail]_vars

\* ------------------------------------------------------------------------
\* Properties of the detail panel
\* ------------------------------------------------------------------------
\* what the user sees of the panel
Panel(d) == <<d.hidden, d.header, d.meta, d.sections, d.loading>>

\* the call for item key settles in this step
Settles(key) == detail'.pending[key] < detail.pending[key]

\* C20: when a fetchItemBundle call of openItemDetail settles, by resolving
\* or by rejecting, for an item that is not the active item of the panel
\* (another item is open, or the panel was closed), the panel stays as it is.
C20_StaleOutcomeDiscarded ==
    [][\A key \in DetailKeys :
          (detail.pc = "panel" /\ Settles(key) /\ detail.activeItemKey # key)
              => Panel(detail') = Panel(detail)]_vars

\* ------------------------------------------------------------------------
\* Properties of fetchTopLevelItems(limit)
\* ------------------------------------------------------------------------
\* C29: whatever the configuration, the list fetchTopLevelItems(limit)
\* resolves with holds at most limit items.
C29_AtMostLimit ==
    topPc = "resolved" => Len(topOut) <= limit

\* ------------------------------------------------------------------------
\* fetchPagedItems against a server that honours start and limit: every
\* request is answered, with the page asked for, or fails
\* ------------------------------------------------------------------------
Deliver(c, run1) == Settle([runs EXCEPT ![c] = run1], OrderAfter(c, run1))

HonestReply(c, listing, request, data) ==
    \E reportedTotal \in Totals(listing, FALSE) :
        Deliver(c, ReceivePage(runs[c], data, reportedTotal, TRUE, limit))

\* the page asked for arrives
HonestPageArrives ==
    /\ \E c \in Waiting :
          HonestReply(c, listings[runs[c].path], LastRequest(runs[c]),
                      HonestPage(listings[runs[c].path], LastRequest(runs[c])))
    /\ UNCHANGED <<limit, listings, subCollections, collectionKeys, warned>>
    /\ UNCHANGED <<configVars, enrichVars, libVars, coverVars, callVars>>

\* the unrooted configuration: one pagination run, on the short listings and
\* on a listing of two full pages
InitPaging ==
    /\ InitTop
    /\ ~COLLECTION_KEY
    /\ limit \in BulkTargets => limit = 250 /\ Len(listings[TopPath]) = 200

NextPaging ==
    \/ FetchTopLevelItems
    \/ HonestPageArrives
    \/ PageFails

\* the event loop runs whatever is runnable and every request settles
SpecPaging == InitPaging /\ [][NextPaging]_vars /\ WF_vars(NextPaging)

\* ------------------------------------------------------------------------
\* Offsets and termination of fetchPagedItems
\* ------------------------------------------------------------------------
RECURSIVE RawUpTo(_, _)
\* the number of records, retained or not, of the first n pages
RawUpTo(pages, n) == IF n = 0 THEN 0 ELSE RawUpTo(pages, n - 1) + pages[n].rawCount

\* C22: in every pagination run the first request carries no start and the
\* r-th request carries as start the number of raw records of the r - 1 pages
\* received before it, whatever the server sent in them.
C22_StartIsRawCount ==
    \A c \in 1..Len(runs) : \A r \in 1..Len(runs[c].requests) :
        /\ r = 1 => runs[c].requests[r].start = NoStart
        /\ r > 1 => /\ r - 1 <= Len(runs[c].pages)
                    /\ runs[c].requests[r].start = RawUpTo(runs[c].pages, r - 1)

\* a second request after a page that held a record that is not retained
C22_Witness ==
    \E c \in 1..Len(runs) :
        /\ Len(runs[c].requests) >= 2
        /\ runs[c].pages[1].retained < runs[c].pages[1].rawCount
        /\ runs[c].pages[1].faithful
        /\ runs[c].requests[2].start = runs[c].pages[1].rawCount

\* the number of requests listing c has issued
Requested(rs, c) == IF c \in 1..Len(rs) THEN Len(rs[c].requests) ELSE 0

\* the last page received was empty or shorter than requested
LastPageShort(run) ==
    /\ run.pages # <<>>
    /\ \/ run.pages[Len(run.pages)].rawCount = 0
       \/ run.pages[Len(run.pages)].rawCount < run.requests[Len(run.pages)].limit

TotalReached(run) ==
    run.totalResults # NoTotal /\ Len(run.results) >= run.totalResults

MustStop(run) ==
    Len(run.results) >= limit \/ LastPageShort(run) \/ TotalReached(run)

Ended == /\ topPc \in {"resolved", "rejected"}
         /\ \A c \in 1..Len(runs) : runs[c].pc \in {"done", "failed"}

\* C23: a pagination run issues a page request only while it holds fewer
\* items than targetCount, its last page was neither empty nor short and it
\* holds fewer items than the total reported; and against a finite listing
\* every run ends.
C23_StopsAndTerminates ==
    /\ [][\A c \in 1..Len(runs') :
             Requested(runs', c) > Requested(runs, c) => ~MustStop(runs'[c])]_vars
    /\ <>Ended

\* a run that returned because it held the total reported, after a full page
\* and short of targetCount
C23_Witness ==
    \E c \in 1..Len(runs) :
        /\ runs[c].pc = "done"
        /\ Len(runs[c].pages) >= 2
        /\ ~LastPageShort(runs[c])
        /\ Len(runs[c].results) < limit
        /\ TotalReached(runs[c])

\* ------------------------------------------------------------------------
\* attachCoverImages when every children request is answered
\* ------------------------------------------------------------------------
\* items without child records: the chunks do not depend on what the
\* responses hold
InitAnswered ==
    /\ Init
    /\ \A k \in ItemKeys : libAttachments[k] = <<>> /\ libNotes[k] = <<>>

NextAnswered ==
    \/ AttachCoverImages
    \/ AttachmentsArrive
    \/ NotesArrive

\* the event loop runs whatever is runnable and every request is answered
SpecAnswered == InitAnswered /\ [][NextAnswered]_vars /\ WF_vars(NextAnswered)

\* chunks of L items each, but for a last one of at least one and at most L
FullChunks(cs, L) ==
    \A c \in 1..Len(cs) :
        /\ Len(cs[c]) >= 1
        /\ Len(cs[c]) <= L
        /\ c < Len(cs) => Len(cs[c]) = L

\* C30: with the library configured and every children request answered,
\* attachCoverImages on n items with limit L >= 1 resolves, after
\* ceil(n / L) chunks, each of at most L items and all but the last of
\* exactly L, each started once the one before it was complete.
C30_ResolvesAfterAllChunks ==
    /\ LIBRARY_ID => <>(acPc = "done")
    /\ [](acPc = "done" =>
            /\ Len(chunks) = CeilDiv(Len(items), ATTACHMENT_CONCURRENCY)
            /\ FullChunks(chunks, ATTACHMENT_CONCURRENCY)
            /\ chunkIdx = Len(chunks)
            /\ Len(withCovers) = Len(items))
    /\ [][chunkIdx' # chunkIdx =>
            /\ chunkIdx' = chunkIdx + 1
            /\ chunkIdx > 0 => AllFulfilled(chunks[chunkIdx], itemResult')]_vars

\* resolved after several chunks, the last one shorter than the limit
C30_Witness ==
    /\ acPc = "done"
    /\ Len(chunks) >= 2
    /\ Len(chunks[Len(chunks)]) < ATTACHMENT_CONCURRENCY
    /\ Len(chunks) = CeilDiv(Len(items), ATTACHMENT_CONCURRENCY)
    /\ chunkIdx = Len(chunks)
    /\ Len(withCovers) = Len(items)

\* ------------------------------------------------------------------------
\* The operations that send requests, each on its own inputs: a pagination
\* run, attachCoverImages and fetchItemBundle, with requests that may fail
\* ------------------------------------------------------------------------
InitRequests == InitPaging \/ InitAnswered \/ InitBundle

Paging == listings # <<>>

Bundling == bundle # NotInUse

Enriching == ~Paging /\ ~Bundling

NextRequests ==
    \/ Paging /\ NextPaging
    \/ Enriching /\ Next
    \/ Bundling /\ NextBundle

SpecRequests == InitRequests /\ [][NextRequests]_vars

\* the places of the items of the chunks after chunk c
LaterItems(cs, c) == UNION {Range(cs[d]) : d \in (c + 1)..Len(cs)}

RequestFailed(i) == attFetch[i].st = "failed" \/ noteFetch[i].st = "failed"

BundleRequests == {"item", "attachments", "notes", "related"}

\* a failed request rejects the operation that sent it
FailurePropagates ==
    /\ \A c \in 1..Len(runs) : runs[c].pc = "failed" => topPc = "rejected"
    /\ \A i \in 1..Len(attFetch) : RequestFailed(i) => acPc = "rejected"
    /\ bundle # NotInUse =>
          \A which \in BundleRequests : bundle[which] = "failed" => bundle.pc = "rejected"

\* once attachCoverImages has rejected, no request of a later chunk was sent
NoLaterChunk ==
    acPc = "rejected" =>
        \A i \in LaterItems(chunks, chunkIdx) :
            attFetch[i] = NotCalled /\ noteFetch[i] = NotCalled

\* a request that has settled is not sent again, and an operation that has
\* rejected sends no request
NeverReissued ==
    /\ \A c \in 1..Len(runs) : runs[c].pc = "failed" => runs'[c] = runs[c]
    /\ \A i \in 1..Len(attFetch) :
          /\ attFetch[i].st \in {"ok", "failed"} => attFetch'[i] = attFetch[i]
          /\ noteFetch[i].st \in {"ok", "failed"} => noteFetch'[i] = noteFetch[i]
    /\ acPc = "rejected" => acPc' = "rejected" /\ chunkIdx' = chunkIdx
    /\ bundle # NotInUse =>
          /\ \A which \in BundleRequests :
                bundle[which] \in {"ok", "failed"} => bundle'[which] = bundle[which]
          /\ bundle.pc = "rejected" =>
                bundle'.pc = "rejected" /\ bundle'.sent = bundle.sent

\* C21: a request of a pagination run, of attachCoverImages or of
\* fetchItemBundle that fails rejects the operation and is not sent again;
\* attachCoverImages rejects as a whole and starts no chunk after the one
\* whose request failed.
C21_FailureRejectsNoRetry ==
    /\ [](FailurePropagates /\ NoLaterChunk)
    /\ [][NeverReissued]_vars

\* attachCoverImages rejected by a request of its first chunk, every request
\* of that chunk settled, with a second chunk never started
C21_Witness ==
    /\ acPc = "rejected"
    /\ chunkIdx = 1
    /\ Len(chunks) >= 2
    /\ \E i \in Range(chunks[1]) : RequestFailed(i)
    /\ \A i \in Range(chunks[1]) :
          attFetch[i].st \in {"ok", "failed"} /\ noteFetch[i].st \in {"ok", "failed"}
    /\ withCovers = <<>>

\* ------------------------------------------------------------------------
\* Properties of the resolved url
\* ------------------------------------------------------------------------
\* the reference without the key appendKeyToUrl may have added
WithoutKey(u) == [u EXCEPT !.key = FALSE]

\* (b): the enclosure link, or without an enclosure the self link with /file
LinkOf(raw) ==
    IF raw.enclosure # Null THEN raw.enclosure
    ELSE IF raw.self # Null /\ raw.self # EmptyStr THEN WithFile(raw.self)
    ELSE EmptyStr

\* (a) to (d), the first that applies
FallbackChain(raw) ==
    IF WEBDAV_BASE_URL /\ raw.linkMode # "linked_url" THEN WebDavUrl(raw.key)
    ELSE IF LinkOf(raw) # EmptyStr THEN LinkOf(raw)
    ELSE IF raw.url # EmptyStr /\ raw.url # Null THEN raw.url
    ELSE EmptyStr

\* C24: the resolved url of an attachment is, up to the API key appended to
\* a link, the first that applies of the WebDAV url (WebDAV configured and
\* link mode not linked_url), the enclosure link or else the self link with
\* /file, the stored url, and the empty string; it is determined by the
\* served record and the configuration.
C24_FallbackChain ==
    resolution.pc = "done" =>
        WithoutKey(resolution.att.resolvedUrl) = FallbackChain(resolution.raw)

\* WebDAV is configured, the attachment is a linked url without enclosure:
\* the self link with /file is taken before the stored url
C24_Witness ==
    /\ resolution.pc = "done"
    /\ WEBDAV_BASE_URL
    /\ resolution.raw.linkMode = "linked_url"
    /\ resolution.raw.enclosure = Null
    /\ resolution.raw.url # EmptyStr
    /\ resolution.raw.self # Null
    /\ WithoutKey(resolution.att.resolvedUrl) = WithFile(resolution.raw.self)

\* C28: the cover of an attachment titled "Book Cover (Web)" is the resolved
\* url of that attachment.
C28_WebCoverIsResolvedUrl ==
    (resolution.pc = "done" /\ IsWebCover(resolution.att)) =>
        resolution.cover = resolution.att.resolvedUrl

\* ------------------------------------------------------------------------
\* Properties of extractRelatedKeys
\* ------------------------------------------------------------------------
\* the places where a segment items/ starts
ItemsAt(chars) ==
    {i \in 1..(Len(chars) - 5) : ToLower(SubSeq(chars, i, i + 5)) = ItemsSlash}

\* the end of the segment that starts at place from
SegmentEnd(chars, from) ==
    IF \E j \in from..Len(chars) : chars[j] \in {"/", " "}
    THEN (CHOOSE j \in from..Len(chars) :
             /\ chars[j] \in {"/", " "}
             /\ \A k \in from..(j - 1) : chars[k] \notin {"/", " "}) - 1
    ELSE Len(chars)

\* the segment after the first items/ of the URI, when there is one
SegmentAfterItems(chars, at) ==
    IF at = 0 THEN <<>> ELSE SubSeq(chars, at + 6, SegmentEnd(chars, at + 6))

KeySegment(chars) == SegmentAfterItems(chars, FirstMatch(ItemsAt(chars)))

\* the keys of the URIs whose segment after items/ is a well-formed key
WellFormedKeys(data) ==
    {KeySegment(chars) : chars \in {u \in RelationStrings(data) : IsKey8(KeySegment(u))}}

\* C25: the keys extracted from a relation map are, each once, the segments
\* after items/ of its URIs that are well-formed keys of 8 alphanumeric
\* characters; a URI with a malformed segment gives no key.
C25_OnlyWellFormedKeys ==
    (bundle # NotInUse /\ bundle.attachments = "ok" /\ bundle.notes = "ok"
        /\ bundle.data.hasRelations) =>
        /\ Range(bundle.relatedKeys) = WellFormedKeys(bundle.data)
        /\ Len(bundle.relatedKeys) = Cardinality(WellFormedKeys(bundle.data))

\* ------------------------------------------------------------------------
\* The cover of an item with several notes: notes that hold the shapes of
\* the four patterns in an order other than the one they are tried in, keys
\* of attachments that were not fetched and attachments without any url
\* ------------------------------------------------------------------------
GifDataUri == DataUri(<<"i","m","a","g","e","/","g","i","f",";","b","a","s","e","6","4",",","B","B","B","B">>)

Flagged(k, tokens) == RawNote(k, <<B64Heading>> \o tokens)

ScannedNotePool ==
    { Flagged("NOTE0011", <<KeyAttrToken(AttachmentKey1), SrcToken(PngDataUri, TRUE, FALSE)>>),
      Flagged("NOTE0012", <<PlaceholderToken(AttachmentKey1), SrcToken(GifDataUri, FALSE, FALSE)>>),
      Flagged("NOTE0013", <<PlaceholderToken(AttachmentKey1), KeyAttrToken(AttachmentKey2)>>),
      Flagged("NOTE0014", <<KeyAttrToken(AttachmentKey1)>>),
      Flagged("NOTE0015", <<KeyAttrToken(AttachmentKey2), PlaceholderToken(AttachmentKey2)>>),
      Flagged("NOTE0016", <<PlainText>>),
      Flagged("NOTE0017", <<SrcToken(GifDataUri, FALSE, FALSE), SrcToken(PngDataUri, TRUE, TRUE)>>),
      RawNote("NOTE0018", <<PlainText, SrcToken(PngDataUri, TRUE, FALSE)>>) }

\* nothing fetched, an attachment with a stored image url, one without any
\* url or link
ScannedAttachmentLists ==
    { <<>>,
      <<RawAttachment(AttachmentKey1, PlainTitle, ApplicationPdf, PdfFileName,
                      CoverPngUrl(AttachmentKey1), Null, Null, "linked_url")>>,
      <<RawAttachment(AttachmentKey1, PlainTitle, ApplicationPdf, PdfFileName,
                      EmptyStr, Null, Null, "imported_file")>> }

\* the variables of attachCoverImages and of the other calls, for one item
\* whose cover is resolved from its fetched lists
OneItemToResolve ==
    /\ items = <<ItemSummary(CoverItem)>>
    /\ acPc = "idle"
    /\ chunks = <<>>
    /\ chunkIdx = 0
    /\ attFetch = [i \in 1..Len(items) |-> NotCalled]
    /\ noteFetch = [i \in 1..Len(items) |-> NotCalled]
    /\ itemResult = [i \in 1..Len(items) |-> [st |-> "none", value |-> NoResult]]
    /\ settleOrder = <<>>
    /\ withCovers = <<>>
    /\ coverPc = "input"
    /\ coverOut = NoCoverOut
    /\ TopNotCalled
    /\ CallsNotInUse

InitNotes ==
    /\ LIBRARY_ID = TRUE
    /\ API_KEY \in BOOLEAN
    /\ WEBDAV_BASE_URL = FALSE
    /\ COLLECTION_KEY = FALSE
    /\ ATTACHMENT_CONCURRENCY = 1
    /\ \E atts \in ScannedAttachmentLists : libAttachments = ChildrenOf(CoverItem, atts)
    /\ \E notes \in SeqsUpTo(ScannedNotePool, MaxScannedNotes) :
          libNotes = ChildrenOf(CoverItem, notes)
    /\ OneItemToResolve

SpecNotes == InitNotes /\ [][NextCover]_vars

\* ------------------------------------------------------------------------
\* Properties of extractB64CoverFromNotes
\* ------------------------------------------------------------------------
Matchers == 1..4

\* the tokens of the note that matcher m looks for, entities decoded
Candidates(note, m) ==
    {t \in 1..Len(note.content) :
        CASE m = 1 -> IsQuotedDataSrc([note.content[t] EXCEPT !.enc = FALSE])
          [] m = 2 -> IsBareDataSrc([note.content[t] EXCEPT !.enc = FALSE])
          [] m = 3 -> IsKeyAttr([note.content[t] EXCEPT !.enc = FALSE])
          [] OTHER -> IsPlaceholder([note.content[t] EXCEPT !.enc = FALSE])}

\* the fetched attachments with the key
WithKey(atts, k) == {i \in 1..Len(atts) : atts[i].key = k}

\* what matcher m gives on the token at place t: the data URI, or the url of
\* the first fetched attachment with the key of the token
OutputAt(note, m, t, atts) ==
    IF m \in {1, 2} THEN note.content[t].uri
    ELSE IF WithKey(atts, note.content[t].key) = {} THEN Null
    ELSE ImageUrlOf(atts[FirstMatch(WithKey(atts, note.content[t].key))])

\* what matcher m gives on the note: it looks at its first match only
Output(note, m, atts) ==
    IF Candidates(note, m) = {} THEN Null
    ELSE OutputAt(note, m, FirstMatch(Candidates(note, m)), atts)

Succeeds(note, m, atts) == IsFlagged(note.content) /\ Truthy(Output(note, m, atts))

Yields(note, atts) == \E m \in Matchers : Succeeds(note, m, atts)

\* C26: the image extracted from the notes is the output of the first
\* matcher, in the order quoted data URI, unquoted data URI, attachment key,
\* placeholder key, that succeeds in the first note in which one succeeds; a
\* key that is not among the fetched attachments, or whose attachment has no
\* url, lets the search go on; when no note yields an image nothing is
\* extracted and the cover is the one chooseCoverUrl gives.
C26_FirstMatcherOfFirstNote ==
    coverPc = "done" =>
        /\ \A n \in 1..Len(FetchedNotes) : \A m \in Matchers :
              ( /\ Succeeds(FetchedNotes[n], m, FetchedAttachments)
                /\ \A q \in 1..(n - 1) : ~Yields(FetchedNotes[q], FetchedAttachments)
                /\ \A k \in 1..(m - 1) : ~Succeeds(FetchedNotes[n], k, FetchedAttachments) )
              => coverOut.b64 = Output(FetchedNotes[n], m, FetchedAttachments)
        /\ (\A n \in 1..Len(FetchedNotes) : ~Yields(FetchedNotes[n], FetchedAttachments))
              => /\ coverOut.b64 = Null
                 /\ coverOut.coverUrl = chooseCoverUrl(FetchedAttachments)

\* the first note names a key that was not fetched, the second one names it
\* too and then, in a placeholder, the key of a fetched attachment
C26_Witness ==
    /\ coverPc = "done"
    /\ Len(FetchedNotes) = 2
    /\ IsFlagged(FetchedNotes[1].content)
    /\ Candidates(FetchedNotes[1], 3) # {}
    /\ ~Yields(FetchedNotes[1], FetchedAttachments)
    /\ Candidates(FetchedNotes[2], 3) # {}
    /\ ~Succeeds(FetchedNotes[2], 3, FetchedAttachments)
    /\ Succeeds(FetchedNotes[2], 4, FetchedAttachments)
    /\ coverOut.b64 = CoverPngUrl(AttachmentKey1)
    /\ coverOut.coverUrl = coverOut.b64

\* ------------------------------------------------------------------------
\* The heuristic ranking: attachments in which the content type, the file
\* name, the stored url, the title and the links vary one by one
\* ------------------------------------------------------------------------
\* a stored url without an image extension, one per attachment key
PageUrl(k) == Https(ImageHost, <<"/">> \o k \o <<"/","v","i","e","w">>)

\* the self link is given to the attachments that have nothing but, perhaps,
\* an image content type, and the url of a page to those that are no image
RankedShapes ==
    {shape \in [imageType : BOOLEAN,
                imageName : BOOLEAN,
                url : {"none", "image", "page"},
                title : {UpperCoverTitle, PlainTitle},
                links : {"none", "self"}] :
        /\ shape.links = "self"
              => ~shape.imageName /\ shape.url = "none" /\ shape.title = PlainTitle
        /\ shape.url = "page" => ~shape.imageType /\ ~shape.imageName}

RankedAttachment(shape, k) ==
    RawAttachment(k, shape.title,
        IF shape.imageType THEN ImagePng ELSE ApplicationPdf,
        IF shape.imageName THEN PngFileName ELSE PdfFileName,
        CASE shape.url = "image" -> CoverPngUrl(k)
          [] shape.url = "page" -> PageUrl(k)
          [] OTHER -> EmptyStr,
        Null,
        IF shape.links = "self" THEN SelfUrl(k) ELSE Null,
        IF shape.url = "none" THEN "imported_file" ELSE "linked_url")

RankedLists(n) ==
    {[i \in 1..Len(shapes) |-> RankedAttachment(shapes[i], AttachmentKeys[i])] :
        shapes \in SeqsUpTo(RankedShapes, n)}

InitRanked ==
    /\ LIBRARY_ID = TRUE
    /\ API_KEY = TRUE
    /\ WEBDAV_BASE_URL = FALSE
    /\ COLLECTION_KEY = FALSE
    /\ ATTACHMENT_CONCURRENCY = 1
    /\ \E atts \in RankedLists(MaxRankedAttachments) :
          libAttachments = ChildrenOf(CoverItem, atts)
    /\ libNotes = ChildrenOf(CoverItem, <<>>)
    /\ OneItemToResolve

SpecRanked == InitRanked /\ [][NextCover]_vars

\* ------------------------------------------------------------------------
\* Properties of the heuristic ranking of chooseCoverUrl
\* ------------------------------------------------------------------------
\* the score as the sum of the four stated weights
StatedScore(att) ==
      (IF StartsWith(att.contentType, ImageSlash) THEN 4 ELSE 0)
    + (IF HasImageExtension(att.fileName) THEN 2 ELSE 0)
    + (IF isLikelyImageUrl(att.url) THEN 3 ELSE 0)
    + (IF Includes(ToLower(att.title), CoverWord) THEN 1 ELSE 0)

\* attachment j comes before attachment i: higher score, or equal score and
\* earlier in the list
RankedBefore(atts, j, i) ==
    \/ StatedScore(atts[j]) > StatedScore(atts[i])
    \/ StatedScore(atts[j]) = StatedScore(atts[i]) /\ j < i

TopRanked(atts, i) == \A j \in 1..Len(atts) : j # i => RankedBefore(atts, i, j)

GivesCover(att) == CoverOfAttachment(att).found

====
